---- MODULE Spec2Model ----
(***************************************************************************)
(* Calendar date/week computation engine of the life-in-weeks calendar.    *)
(*                                                                         *)
(* A Date is modelled by the number of its local calendar day, counted     *)
(* from 1970-01-01 (day 0, a Thursday).  Every Date the engine handles is  *)
(* a local midnight: createLocalDateYYYYMMDD builds one, startOfWeek       *)
(* resets the time of day, and addYears/addWeeks keep it.                  *)
(***************************************************************************)
EXTENDS Integers, Sequences, FiniteSets, TLC

(***************************************************************************)
(* Bounds of the model.                                                    *)
(***************************************************************************)
\* days the real clock runs on after the module was loaded
MaxClockDays == 16
\* birth dates are taken from windows of BirthWindow + 1 days
BirthWindow == 6
\* every lifespan 1..MaxLifespan is tried, plus the LifespanSamples
MaxLifespan == 3
\* iterations of the grouping loop explored past ceil(lifespan / group size)
MaxOverrun == 2
\* number of files handed to createFilesRecord
MaxFiles == 3
\* number of components a view mounts
MaxComponents == 4

(***************************************************************************)
(* Program constants.                                                      *)
(***************************************************************************)
YEAR_GROUP_SIZE == 10
MIN_LIFESPAN == 1
MAX_LIFESPAN == 200
DEFAULT_LIFESPAN == 76
FALLBACK_DATE == [YEAR |-> 2000, MONTH |-> 0, DAY |-> 1]
\* WeekStartsOn is 0..6 | undefined
Undefined == -1
\* date-fns default options: weekStartsOn 0 when none is passed
LocaleWeekStartsOn == 0
\* the day number that stands for null where a Date is expected
NullDate == -1000000

(***************************************************************************)
(* The calendar of the JavaScript Date: civil date <-> day number.         *)
(***************************************************************************)
IsLeapYear(y) == (y % 4 = 0 /\ y % 100 # 0) \/ y % 400 = 0

\* number of days of month m (1..12) of year y
DaysInMonth(y, m) ==
    IF m = 2 THEN (IF IsLeapYear(y) THEN 29 ELSE 28)
    ELSE IF m \in {4, 6, 9, 11} THEN 30 ELSE 31

\* new Date(y, m - 1, d): day number of the civil date y-m-d, m in 1..12;
\* d may lie outside the month (the Date constructor carries it over)
DaysFromCivil(y, m, d) ==
    LET yy  == IF m <= 2 THEN y - 1 ELSE y
        era == yy \div 400
        yoe == yy - era * 400
        mp  == IF m > 2 THEN m - 3 ELSE m + 9
        doy == (153 * mp + 2) \div 5 + d - 1
        doe == yoe * 365 + yoe \div 4 - yoe \div 100 + doy
    IN  era * 146097 + doe - 719468

\* year of the era (0..399) of the day doe of a 400-year era
YearOfEra(doe) ==
    (doe - doe \div 1460 + doe \div 36524 - doe \div 146096) \div 365

\* the civil date of day doy (counted from 1 March) of year yoe of an era;
\* mp is the month counted from March
CivilOfYearDay(era, yoe, doy, mp) ==
    LET m == IF mp < 10 THEN mp + 3 ELSE mp - 9
    IN  [year |-> yoe + era * 400 + (IF m <= 2 THEN 1 ELSE 0),
         month |-> m,
         day |-> doy - (153 * mp + 2) \div 5 + 1]

\* the civil date of day doe of an era, which falls in its year yoe
CivilOfEraDay(era, doe, yoe) ==
    LET doy == doe - (365 * yoe + yoe \div 4 - yoe \div 100)
    IN  CivilOfYearDay(era, yoe, doy, (5 * doy + 2) \div 153)

\* getFullYear / getMonth + 1 / getDate of a day number
CivilFromDays(z) ==
    LET zz  == z + 719468
        era == zz \div 146097
        doe == zz - era * 146097
    IN  CivilOfEraDay(era, doe, YearOfEra(doe))

\* date-fns getDay: 0 = Sunday .. 6 = Saturday
getDay(date) == (date + 4) % 7

(***************************************************************************)
(* date-fns primitives used by the engine.                                 *)
(***************************************************************************)
\* the weekStartsOn option handed to date-fns
WeekStartOption(validatedWeekStartsOn) ==
    IF validatedWeekStartsOn # Undefined THEN validatedWeekStartsOn
    ELSE LocaleWeekStartsOn

\* startOfWeek that forgets the days before weekStartsOn
startOfWeekNoWrap(date, validatedWeekStartsOn) ==
    date - (getDay(date) - WeekStartOption(validatedWeekStartsOn))

\* startOfWeek(date, { weekStartsOn })
startOfWeek(date, validatedWeekStartsOn) ==
    LET weekStartsOn == WeekStartOption(validatedWeekStartsOn)
        day  == getDay(date)
        diff == (IF day < weekStartsOn THEN 7 ELSE 0) + day - weekStartsOn
    IN  date - diff

\* addYears that lets a 29 February run over into March
addYearsNoClamp(date, amount) ==
    LET c == CivilFromDays(date)
    IN  DaysFromCivil(c.year + amount, c.month, c.day)

\* addYears(date, amount) = addMonths(date, 12 * amount): same month and day
\* of month in the target year, clamped to the last day of that month
addYears(date, amount) ==
    LET c == CivilFromDays(date)
        y == c.year + amount
        daysInMonth == DaysInMonth(y, c.month)
    IN  IF c.day >= daysInMonth THEN DaysFromCivil(y, c.month, daysInMonth)
        ELSE DaysFromCivil(y, c.month, c.day)

\* addMonths(date, amount): the day of month is clamped to the last day of
\* the target month
addMonths(date, amount) ==
    LET c == CivilFromDays(date)
        total == (c.month - 1) + amount
        y == c.year + (total \div 12)
        m == (total % 12) + 1
        daysInMonth == DaysInMonth(y, m)
    IN  IF c.day >= daysInMonth THEN DaysFromCivil(y, m, daysInMonth)
        ELSE DaysFromCivil(y, m, c.day)

\* addWeeks that adds days
addWeeksAsDays(date, amount) == date + amount

addWeeks(date, amount) == date + 7 * amount

subWeeks(date, amount) == addWeeks(date, -amount)

\* the loop of eachWeekOfInterval with < for <=
WeekStartsBefore(startDateWeek, endDateWeek) ==
    IF startDateWeek >= endDateWeek THEN << >>
    ELSE [i \in 1..((endDateWeek - startDateWeek) \div 7) |->
              addWeeks(startDateWeek, i - 1)]

\* the week starts pushed by the loop of eachWeekOfInterval:
\* currentDate = startDateWeek; while (currentDate <= endDateWeek)
\*   { push(currentDate); currentDate = addWeeks(currentDate, 1) }
WeekStartsFromTo(startDateWeek, endDateWeek) ==
    IF startDateWeek > endDateWeek THEN << >>
    ELSE [i \in 1..((endDateWeek - startDateWeek) \div 7 + 1) |->
              addWeeks(startDateWeek, i - 1)]

Reverse(s) == [i \in 1..Len(s) |-> s[Len(s) + 1 - i]]

\* What eachWeekOfInterval does with an interval whose start is after its
\* end depends on the installed date-fns: releases before 3.0 throw a
\* RangeError, later ones enumerate the interval backwards.
IntervalPolicies == {"throw", "reverse"}

\* eachWeekOfInterval({ start, end }, { weekStartsOn });
\* [threw |-> TRUE] stands for the RangeError
eachWeekOfInterval(start, end, validatedWeekStartsOn, policy) ==
    LET reversed == start > end
        startDateWeek == IF reversed THEN startOfWeek(end, validatedWeekStartsOn)
                         ELSE startOfWeek(start, validatedWeekStartsOn)
        endDateWeek == IF reversed THEN startOfWeek(start, validatedWeekStartsOn)
                       ELSE startOfWeek(end, validatedWeekStartsOn)
        dates == WeekStartsFromTo(startDateWeek, endDateWeek)
    IN  IF reversed /\ policy = "throw" THEN [threw |-> TRUE, dates |-> << >>]
        ELSE [threw |-> FALSE,
              dates |-> IF reversed THEN Reverse(dates) ELSE dates]

(***************************************************************************)
(* JavaScript values handed to the functions that check their arguments.   *)
(* type is what typeof / instanceof tell apart; ok is FALSE for NaN and    *)
(* for a Date whose getTime() is NaN; a number is n, or n + 1/2 when half  *)
(* is TRUE; a Date is the local midnight of day n; text are the characters *)
(* of a string.                                                            *)
(***************************************************************************)
JsValue(type, ok, n, half, text) ==
    [type |-> type, ok |-> ok, n |-> n, half |-> half, text |-> text]

DateOf(day) == JsValue("Date", TRUE, day, FALSE, << >>)

\* new Date('invalid')
InvalidDate == JsValue("Date", FALSE, 0, FALSE, << >>)

NumberOf(n) == JsValue("number", TRUE, n, FALSE, << >>)

\* the number n + 1/2
NumberAndHalf(n) == JsValue("number", TRUE, n, TRUE, << >>)

NaN == JsValue("number", FALSE, 0, FALSE, << >>)

StringOf(text) == JsValue("string", TRUE, 0, FALSE, text)

Null == JsValue("null", FALSE, 0, FALSE, << >>)

UndefinedValue == JsValue("undefined", FALSE, 0, FALSE, << >>)

\* the test that forgets the Date whose time is NaN
IsDateObject(value) == value.type = "Date"

\* !value || !(value instanceof Date) || isNaN(value.getTime())
IsValidDateObject(value) == value.type = "Date" /\ value.ok

(***************************************************************************)
(* Week-start normaliser.  A text is the sequence of its characters; a     *)
(* character outside ASCII is written by its code point.                   *)
(***************************************************************************)
\* the absent weekStartsOn argument
NoString == "<undefined>"

WeekStartStrings ==
    {"sunday", "Monday", "TUESDAY", "wednesday", "Thursday", "friday",
     "Saturday", "locale", NoString}

\* the characters of the week-start settings of the model
Characters(s) ==
    CASE s = "sunday" -> <<"s", "u", "n", "d", "a", "y">>
      [] s = "Monday" -> <<"M", "o", "n", "d", "a", "y">>
      [] s = "TUESDAY" -> <<"T", "U", "E", "S", "D", "A", "Y">>
      [] s = "wednesday" -> <<"w", "e", "d", "n", "e", "s", "d", "a", "y">>
      [] s = "Thursday" -> <<"T", "h", "u", "r", "s", "d", "a", "y">>
      [] s = "friday" -> <<"f", "r", "i", "d", "a", "y">>
      [] s = "Saturday" -> <<"S", "a", "t", "u", "r", "d", "a", "y">>
      [] s = "locale" -> <<"l", "o", "c", "a", "l", "e">>

\* a week-start setting of the model as the value handed to the engine
SettingValue(s) ==
    IF s = NoString THEN UndefinedValue ELSE StringOf(Characters(s))

UpperCaseLetters ==
    <<"A", "B", "C", "D", "E", "F", "G", "H", "I", "J", "K", "L", "M",
      "N", "O", "P", "Q", "R", "S", "T", "U", "V", "W", "X", "Y", "Z">>

LowerCaseLetters ==
    <<"a", "b", "c", "d", "e", "f", "g", "h", "i", "j", "k", "l", "m",
      "n", "o", "p", "q", "r", "s", "t", "u", "v", "w", "x", "y", "z">>

\* LATIN CAPITAL LETTER I WITH DOT ABOVE, LATIN SMALL LETTER DOTLESS I and
\* COMBINING DOT ABOVE
CapitalDottedI == "U+0130"

SmallDotlessI == "U+0131"

CombiningDotAbove == "U+0307"

\* the default locale of the host: toLocaleLowerCase() is called without a
\* locale argument
HostLocales == {"en-US", "tr-TR"}

\* the language-sensitive lower casing of Unicode (SpecialCasing) is that of
\* Turkish and Azeri: I becomes the dotless i
HasTurkicCasing(locale) == locale = "tr-TR"

\* the lower case of one character: one or two characters
LowerCaseOf(c, locale) ==
    IF c = "I" /\ HasTurkicCasing(locale) THEN <<SmallDotlessI>>
    ELSE IF c = CapitalDottedI
    THEN (IF HasTurkicCasing(locale) THEN <<"i">>
          ELSE <<"i", CombiningDotAbove>>)
    ELSE IF \E k \in 1..26 : UpperCaseLetters[k] = c
    THEN <<LowerCaseLetters[CHOOSE k \in 1..26 : UpperCaseLetters[k] = c]>>
    ELSE <<c>>

\* String.prototype.toLocaleLowerCase() on a host of the given locale
RECURSIVE toLocaleLowerCase(_, _)
toLocaleLowerCase(text, locale) ==
    IF text = << >> THEN << >>
    ELSE LowerCaseOf(Head(text), locale) \o toLocaleLowerCase(Tail(text), locale)

\* the switch of weekStartsOnStringToIndex over the lower-cased text
DayIndexOf(lower) ==
    CASE lower = <<"s", "u", "n", "d", "a", "y">> -> 0
      [] lower = <<"m", "o", "n", "d", "a", "y">> -> 1
      [] lower = <<"t", "u", "e", "s", "d", "a", "y">> -> 2
      [] lower = <<"w", "e", "d", "n", "e", "s", "d", "a", "y">> -> 3
      [] lower = <<"t", "h", "u", "r", "s", "d", "a", "y">> -> 4
      [] lower = <<"f", "r", "i", "d", "a", "y">> -> 5
      [] lower = <<"s", "a", "t", "u", "r", "d", "a", "y">> -> 6
      [] OTHER -> Undefined

\* weekStartsOnStringToIndex(weekStartsOn) on a host of the given locale;
\* weekStartsOn is a string or undefined
weekStartsOnStringToIndexAt(weekStartsOn, locale) ==
    IF weekStartsOn.type # "string" THEN Undefined
    ELSE DayIndexOf(toLocaleLowerCase(weekStartsOn.text, locale))

\* weekStartsOnStringToIndex on a week-start setting of the model; none of
\* them has a capital I, so that the locale of the host does not matter
weekStartsOnStringToIndex(weekStartsOn) ==
    weekStartsOnStringToIndexAt(SettingValue(weekStartsOn), "en-US")

\* the WeekStartsOn returned by weekStartsOnStringToIndex, as the argument
\* of weekStartsOnIndexToString
IndexValue(index) ==
    IF index = Undefined THEN UndefinedValue ELSE NumberOf(index)

DayNames ==
    <<<<"s", "u", "n", "d", "a", "y">>,
      <<"m", "o", "n", "d", "a", "y">>,
      <<"t", "u", "e", "s", "d", "a", "y">>,
      <<"w", "e", "d", "n", "e", "s", "d", "a", "y">>,
      <<"t", "h", "u", "r", "s", "d", "a", "y">>,
      <<"f", "r", "i", "d", "a", "y">>,
      <<"s", "a", "t", "u", "r", "d", "a", "y">>>>

\* weekStartsOnIndexToString that counts the weekdays round
weekStartsOnIndexToStringModulo(index) ==
    IF index.type = "number" /\ index.ok /\ ~index.half
    THEN StringOf(DayNames[(index.n % 7) + 1])
    ELSE UndefinedValue

\* index is a number or undefined; the switch compares with ===
weekStartsOnIndexToString(index) ==
    IF index.type = "number" /\ index.ok /\ ~index.half
           /\ index.n >= 0 /\ index.n <= 6
    THEN StringOf(DayNames[index.n + 1])
    ELSE UndefinedValue

(***************************************************************************)
(* Calendar generator.                                                     *)
(***************************************************************************)
\* lifespan >= bound, for a number that is n or n + 1/2
NumberAtLeast(number, bound) == number.n >= bound

\* lifespan <= bound
NumberAtMost(number, bound) ==
    IF number.half THEN number.n < bound ELSE number.n <= bound

\* String.prototype.trim() on texts whose white space is the space
RECURSIVE trim(_)
trim(text) ==
    IF text = << >> THEN << >>
    ELSE IF Head(text) = " " THEN trim(Tail(text))
    ELSE IF text[Len(text)] = " " THEN trim(SubSeq(text, 1, Len(text) - 1))
    ELSE text

\* !componentName || typeof componentName !== 'string'
\*     || componentName.trim() === ''
IsNoComponentName(componentName) ==
    \/ componentName.type # "string"
    \/ componentName.text = << >>
    \/ trim(componentName.text) = << >>

\* the day of the Date it returns
getValidatedBirthDate(date) ==
    IF date.type = "Date" /\ date.ok THEN date.n
    ELSE DaysFromCivil(FALLBACK_DATE.YEAR, FALLBACK_DATE.MONTH + 1,
                       FALLBACK_DATE.DAY)

getValidatedLifespan(lifespan) ==
    IF lifespan.type = "number" /\ lifespan.ok
           /\ NumberAtLeast(lifespan, MIN_LIFESPAN)
           /\ NumberAtMost(lifespan, MAX_LIFESPAN)
    THEN lifespan
    ELSE NumberOf(DEFAULT_LIFESPAN)

\* addYears(date, amount) for an amount that may be n + 1/2: date-fns
\* before 3.0 cuts the amount to a whole number, later releases add
\* 12 * amount months
addYearsOfNumber(date, amount, policy) ==
    IF ~amount.half \/ policy = "throw" THEN addYears(date, amount.n)
    ELSE addMonths(date, 12 * amount.n + 6)

\* the death week is the week of the birthday after the death date
calculateCalendarDatesYearMore(validatedBirthDate, validatedLifespan, validatedWeekStartsOn, policy) ==
    LET dDate == addYearsOfNumber(validatedBirthDate, validatedLifespan, policy)
    IN  [birthWeek |-> startOfWeek(validatedBirthDate, validatedWeekStartsOn),
         deathDate |-> dDate,
         deathWeek |-> startOfWeek(addYears(dDate, 1), validatedWeekStartsOn)]

calculateCalendarDates(validatedBirthDate, validatedLifespan, validatedWeekStartsOn, policy) ==
    LET dDate == addYearsOfNumber(validatedBirthDate, validatedLifespan, policy)
    IN  [birthWeek |-> startOfWeek(validatedBirthDate, validatedWeekStartsOn),
         deathDate |-> dDate,
         deathWeek |-> startOfWeek(dDate, validatedWeekStartsOn)]

\* try { return eachWeekOfInterval(...) } catch { return [] }
generateWeekIntervals(startWeek, endWeek, validatedWeekStartsOn, policy) ==
    LET r == eachWeekOfInterval(startWeek, endWeek, validatedWeekStartsOn, policy)
    IN  IF r.threw THEN << >> ELSE r.dates

\* Week objects: the array index of JavaScript is 0-based
createWeekObjects(weekIntervals) ==
    [i \in 1..Len(weekIntervals) |->
        [index |-> i - 1, startDate |-> weekIntervals[i]]]

\* no CalendarData: the function threw or was not called
NoCalendarData ==
    [validatedBirthDate |-> 0, validatedLifespan |-> NumberOf(0),
     validatedWeekStartsOn |-> Undefined, birthWeek |-> 0, deathDate |-> 0,
     deathWeek |-> 0, weeks |-> << >>, hasWeeks |-> FALSE]

\* generateCalendarData(birthDate, lifespan, componentName, weekStartsOn) on
\* a host of the given locale and date-fns; [threw |-> TRUE] stands for the
\* Error of one of its three argument tests
generateCalendarData(birthDate, lifespan, componentName, weekStartsOn, locale, policy) ==
    IF birthDate.type # "Date" THEN [threw |-> TRUE, data |-> NoCalendarData]
    ELSE IF lifespan.type # "number" \/ ~lifespan.ok
    THEN [threw |-> TRUE, data |-> NoCalendarData]
    ELSE IF IsNoComponentName(componentName)
    THEN [threw |-> TRUE, data |-> NoCalendarData]
    ELSE
        LET validatedBirthDate == getValidatedBirthDate(birthDate)
            validatedLifespan == getValidatedLifespan(lifespan)
            validatedWeekStartsOn ==
                weekStartsOnStringToIndexAt(weekStartsOn, locale)
            dates == calculateCalendarDates(validatedBirthDate,
                         validatedLifespan, validatedWeekStartsOn, policy)
            weekIntervals ==
                generateWeekIntervals(dates.birthWeek, dates.deathWeek,
                                      validatedWeekStartsOn, policy)
            wks == createWeekObjects(weekIntervals)
        IN  [threw |-> FALSE,
             data |-> [validatedBirthDate |-> validatedBirthDate,
                       validatedLifespan |-> validatedLifespan,
                       validatedWeekStartsOn |-> validatedWeekStartsOn,
                       birthWeek |-> dates.birthWeek,
                       deathDate |-> dates.deathDate,
                       deathWeek |-> dates.deathWeek,
                       weeks |-> wks,
                       hasWeeks |-> Len(wks) > 0]]

\* the name the calendar components hand to generateCalendarData
ComponentName ==
    StringOf(<<"C", "a", "l", "e", "n", "d", "a", "r", "B", "a", "s", "i", "c">>)

\* the CalendarData of a call with a valid Date, a whole number of years
\* and a week-start setting of the model; validatedLifespan is that number
CalendarDataOf(bDate, rawLifespan, rawWeekStartsOn, policy) ==
    LET result == generateCalendarData(DateOf(bDate), NumberOf(rawLifespan),
                      ComponentName, SettingValue(rawWeekStartsOn), "en-US",
                      policy)
    IN  [result.data EXCEPT !.validatedLifespan = @.n]

(***************************************************************************)
(* Date/key codec.  A string is modelled by the sequence of its            *)
(* characters, so that slicing, padding and parsing are computed.          *)
(***************************************************************************)
DigitChars == <<"0", "1", "2", "3", "4", "5", "6", "7", "8", "9">>

IsDigit(c) == \E n \in 1..10 : DigitChars[n] = c

\* Number(c) of a digit character
DigitValue(c) == (CHOOSE n \in 1..10 : DigitChars[n] = c) - 1

\* String(n) of a natural number
RECURSIVE NumberToString(_)
NumberToString(n) ==
    IF n < 10 THEN <<DigitChars[n + 1]>>
    ELSE Append(NumberToString(n \div 10), DigitChars[(n % 10) + 1])

\* Number(s) of a string of digits
RECURSIVE StringToNumber(_)
StringToNumber(str) ==
    IF Len(str) = 0 THEN 0
    ELSE 10 * StringToNumber(SubSeq(str, 1, Len(str) - 1))
            + DigitValue(str[Len(str)])

\* String.prototype.padStart(targetLength, "0")
RECURSIVE padStart(_, _)
padStart(str, targetLength) ==
    IF Len(str) >= targetLength THEN str
    ELSE padStart(<<"0">> \o str, targetLength)

\* String.prototype.slice(from, to) with 0-based, end-exclusive positions
slice(str, from, to) ==
    SubSeq(str, from + 1, IF to < Len(str) THEN to ELSE Len(str))

\* new Date(year, monthIndex, day): a year 0..99 means 1900 + year, and a
\* month index or a day outside their range carry over
NewDate(year, monthIndex, day) ==
    LET fullYear == IF year >= 0 /\ year <= 99 THEN 1900 + year ELSE year
    IN  DaysFromCivil(fullYear + (monthIndex \div 12), (monthIndex % 12) + 1, 1)
            + day - 1

\* /^\d{4}-\d{2}-\d{2}$/.test(dateString)
MatchesYYYYMMDD(dateString) ==
    /\ Len(dateString) = 10
    /\ \A i \in {1, 2, 3, 4, 6, 7, 9, 10} : IsDigit(dateString[i])
    /\ dateString[5] = "-"
    /\ dateString[8] = "-"

\* [threw |-> TRUE] stands for the Error the function throws
createLocalDateYYYYMMDD(dateString) ==
    IF Len(dateString) = 0 \/ ~MatchesYYYYMMDD(dateString)
    THEN [threw |-> TRUE, date |-> 0]
    ELSE [threw |-> FALSE,
          date |-> NewDate(StringToNumber(SubSeq(dateString, 1, 4)),
                           StringToNumber(SubSeq(dateString, 6, 7)) - 1,
                           StringToNumber(SubSeq(dateString, 9, 10)))]

Abs(n) == IF n < 0 THEN -n ELSE n

formatTimezoneOffset(offsetMinutes) ==
    LET sign == IF offsetMinutes > 0 THEN "-" ELSE "+"
        absOffsetMinutes == Abs(offsetMinutes)
        hours == absOffsetMinutes \div 60
        minutes == absOffsetMinutes % 60
    IN  <<sign>> \o padStart(NumberToString(hours), 2) \o <<":">>
            \o padStart(NumberToString(minutes), 2)

\* the date part of a key: year, zero-padded month and day
YearMonthDay(date) ==
    LET c == CivilFromDays(date)
    IN  NumberToString(c.year) \o <<"-">> \o padStart(NumberToString(c.month), 2)
            \o <<"-">> \o padStart(NumberToString(c.day), 2)

\* `${year}-${month}-${day}`: the year as String(year) gives it
dateToYYYYMMDD(date) == YearMonthDay(date)

WeekPrefix == <<"w", "e", "e", "k", "-">>

MidnightText == <<"T", "0", "0", ":", "0", "0", ":", "0", "0">>

\* localTimeOffset is date.getTimezoneOffset() of the host
dateToWeeklyNoteRecordKeyFormat(date, localTimeOffset) ==
    WeekPrefix \o YearMonthDay(date) \o MidnightText
        \o formatTimezoneOffset(localTimeOffset)

(***************************************************************************)
(* Key correction and the record of weekly note files.                     *)
(***************************************************************************)
\* nextDay that stays in the week of date
nextDayNoWrap(date, day) == date + (day - getDay(date))

\* date-fns nextDay(date, day): the first date after date on weekday day
nextDay(date, day) ==
    LET delta == day - getDay(date)
    IN  date + (IF delta <= 0 THEN delta + 7 ELSE delta)

\* [threw |-> TRUE]: createLocalDateYYYYMMDD threw on the date of the key
weeklyNoteKeyCorrection(key, weekStartsOn, localTimeOffset) ==
    LET dateString == slice(key, 5, 15)
        parsed == createLocalDateYYYYMMDD(dateString)
        startDayIndex == weekStartsOnStringToIndex(weekStartsOn)
    IN  IF parsed.threw THEN [threw |-> TRUE, key |-> << >>]
        ELSE IF getDay(parsed.date) = startDayIndex \/ startDayIndex = Undefined
        THEN [threw |-> FALSE, key |-> key]
        ELSE [threw |-> FALSE,
              key |-> dateToWeeklyNoteRecordKeyFormat(
                          nextDay(parsed.date, startDayIndex), localTimeOffset)]

\* The file name pattern of the model: a plain Moment.js format.
FileNamePattern == <<"Y", "Y", "Y", "Y", "-", "M", "M", "-", "D", "D">>

\* moment(basename, "YYYY-MM-DD", true): strict parsing wants four, two and
\* two digits and a day that exists; moment keeps the year as written
MomentParse(basename) ==
    IF ~MatchesYYYYMMDD(basename) THEN [valid |-> FALSE, date |-> 0]
    ELSE LET y == StringToNumber(SubSeq(basename, 1, 4))
             m == StringToNumber(SubSeq(basename, 6, 7))
             d == StringToNumber(SubSeq(basename, 9, 10))
         IN  IF m >= 1 /\ m <= 12 /\ d >= 1 /\ d <= DaysInMonth(y, m)
             THEN [valid |-> TRUE, date |-> DaysFromCivil(y, m, d)]
             ELSE [valid |-> FALSE, date |-> 0]

\* momentObject.format('Z'): the UTC offset of the host, which is the
\* negated getTimezoneOffset
MomentFormatZ(localTimeOffset) ==
    LET utcOffset == -localTimeOffset
        sign == IF utcOffset < 0 THEN "-" ELSE "+"
    IN  <<sign>> \o padStart(NumberToString(Abs(utcOffset) \div 60), 2)
            \o <<":">> \o padStart(NumberToString(Abs(utcOffset) % 60), 2)

\* momentObject.format(`[week-]YYYY-MM-DDT00:00:00${momentObject.format('Z')}`)
MomentFormatKey(date, localTimeOffset) ==
    LET c == CivilFromDays(date)
    IN  WeekPrefix \o padStart(NumberToString(c.year), 4) \o <<"-">>
            \o padStart(NumberToString(c.month), 2) \o <<"-">>
            \o padStart(NumberToString(c.day), 2) \o MidnightText
            \o MomentFormatZ(localTimeOffset)

\* an assignment that keeps the file already recorded under the key
RecordPutKeepFirst(rec, key, file) ==
    [k \in DOMAIN rec \cup {key} |-> IF k \in DOMAIN rec THEN rec[k] ELSE file]

\* record[correctedKey] = file
RecordPut(rec, key, file) ==
    [k \in DOMAIN rec \cup {key} |-> IF k = key THEN file ELSE rec[k]]

(***************************************************************************)
(* Week classifier.  An instant is a number of ticks since 1970-01-01      *)
(* 00:00 local time; a Date that is a local midnight is a whole day.       *)
(***************************************************************************)
\* midnight and midday of every day
TicksPerDay == 2

\* the local midnight of a day, as an instant
Midnight(day) == day * TicksPerDay

\* the local day an instant lies in
DayOf(instant) == instant \div TicksPerDay

(***************************************************************************)
(* Number(value) of a string, and the lifespan validator of the settings.  *)
(* A numeric text is read digit by digit and rounded to the nearest double *)
(* with decimal fractions kept as sequences of digits, so that no value    *)
(* leaves the integers of the model.                                       *)
(***************************************************************************)
\* the digits of a text of digits, as numbers
DigitsOf(text) == [i \in 1..Len(text) |-> DigitValue(text[i])]

IsDigits(text) == \A i \in 1..Len(text) : IsDigit(text[i])

\* digit i of the decimal fraction 0.d1 d2 ... dn
DigitAt(digits, i) == IF i <= Len(digits) THEN digits[i] ELSE 0

\* the double of the decimal fraction 0.d1 d2 ... dn, which is below 1/2:
\* each digit takes the carry of the one after it
DoubleOfFraction(digits) ==
    SubSeq([i \in 1..Len(digits) |->
               (2 * digits[i]
                   + (IF DigitAt(digits, i + 1) >= 5 THEN 1 ELSE 0)) % 10],
           1, Len(digits))

\* the doubles between 2^k and 2^(k+1) are 2^(k - MantissaBits) apart
MantissaBits == 52

\* the digits of 2^(-(MantissaBits + 2)), half the distance of the doubles
\* below 1
HalfUlpBelowOne ==
    <<0, 0, 0, 0, 0, 0, 0, 0, 0, 0, 0, 0, 0, 0, 0, 0, 5, 5,
      5, 1, 1, 1, 5, 1, 2, 3, 1, 2, 5, 7, 8, 2, 7, 0, 2, 1,
      1, 8, 1, 5, 8, 3, 4, 0, 4, 5, 4, 1, 0, 1, 5, 6, 2, 5>>

\* the digits of 2^(-m), 1 < m <= MantissaBits + 2: the distance of
\* neighbouring doubles is a power of two
RECURSIVE TwoToMinus(_)
TwoToMinus(m) ==
    IF m >= MantissaBits + 2 THEN HalfUlpBelowOne
    ELSE DoubleOfFraction(TwoToMinus(m + 1))

\* 0.a <= 0.b
FractionAtMost(a, b) ==
    LET n == IF Len(a) > Len(b) THEN Len(a) ELSE Len(b)
        differ == {i \in 1..n : DigitAt(a, i) # DigitAt(b, i)}
    IN  \/ differ = {}
        \/ \E j \in differ :
              /\ \A k \in differ : j <= k
              /\ DigitAt(a, j) < DigitAt(b, j)

\* the places of the digits that are not 0
NonZeroPlaces(digits) == {i \in 1..Len(digits) : digits[i] # 0}

StripLeadingZeros(digits) ==
    IF NonZeroPlaces(digits) = {} THEN << >>
    ELSE SubSeq(digits,
                CHOOSE i \in NonZeroPlaces(digits) :
                    \A k \in NonZeroPlaces(digits) : i <= k,
                Len(digits))

StripTrailingZeros(digits) ==
    IF NonZeroPlaces(digits) = {} THEN << >>
    ELSE SubSeq(digits, 1,
                CHOOSE i \in NonZeroPlaces(digits) :
                    \A k \in NonZeroPlaces(digits) : i >= k)

\* 1 - 0.d1 ... dn, for a fraction whose last digit is not 0
OneMinusFraction(digits) ==
    [i \in 1..Len(digits) |->
        IF i = Len(digits) THEN 10 - digits[i] ELSE 9 - digits[i]]

Min(a, b) == IF a < b THEN a ELSE b

\* a magnitude the model does not tell apart from larger ones: every
\* lifespan bound is far below it
Huge == 1000000

\* a number of more digits than this, in any radix, is not below Huge
HugeDigits == 20

\* the number a sequence of digits without leading zeros denotes, or Huge if
\* it is not below Huge
RECURSIVE ValueOfSignificantDigits(_, _)
ValueOfSignificantDigits(digits, radix) ==
    IF digits = << >> THEN 0
    ELSE IF Len(digits) > HugeDigits THEN Huge
    ELSE Min(Huge,
             radix * ValueOfSignificantDigits(
                         SubSeq(digits, 1, Len(digits) - 1), radix)
                 + digits[Len(digits)])

\* the number a sequence of digits denotes, or Huge if it is not below Huge
ValueOfDigits(digits, radix) ==
    ValueOfSignificantDigits(StripLeadingZeros(digits), radix)

\* floor(log2(n)), n >= 1
RECURSIVE Log2(_)
Log2(n) == IF n < 2 THEN 0 ELSE 1 + Log2(n \div 2)

\* exponents are cut to this size: with the texts of the model (shorter than
\* 300 characters) a larger one gives 0 or Infinity all the same
ExponentCap == 2000

\* half the smallest double, 2^(-1075), begins after DenormalZeros zeros
\* with the digits HalfSmallestDouble, and is read to these digits
DenormalZeros == 323

HalfSmallestDouble == <<2, 4, 7, 0, 3, 2, 8, 2, 2, 9, 2, 0, 6, 2, 3, 2, 7>>

\* a fraction of digits that does not end in 0 is at most 2^(-1075)
RoundsToZero(fraction) ==
    LET significant == StripLeadingZeros(fraction)
        zeros == Len(fraction) - Len(significant)
    IN  \/ zeros > DenormalZeros
        \/ zeros = DenormalZeros /\ FractionAtMost(significant, HalfSmallestDouble)

\* a JavaScript number as far as the validator looks at it: whether it is
\* NaN, whether it is an integer, and the largest integer not above it
NumberValue(isNaN, isInteger, floor) ==
    [isNaN |-> isNaN, isInteger |-> isInteger, floor |-> floor]

NotANumber == NumberValue(TRUE, FALSE, 0)

\* the double nearest to whole + 0.fraction (ties to even): whole is a
\* number below Huge, fraction a sequence of digits that does not end in 0
RoundToDouble(whole, fraction) ==
    IF fraction = << >> THEN NumberValue(FALSE, TRUE, whole)
    ELSE IF whole = 0
    THEN (IF RoundsToZero(fraction)
          THEN NumberValue(FALSE, TRUE, 0)
          ELSE IF FractionAtMost(OneMinusFraction(fraction),
                                 TwoToMinus(MantissaBits + 2))
          THEN NumberValue(FALSE, TRUE, 1)
          ELSE NumberValue(FALSE, FALSE, 0))
    ELSE IF FractionAtMost(fraction,
                           TwoToMinus(MantissaBits + 1 - Log2(whole)))
    THEN NumberValue(FALSE, TRUE, whole)
    ELSE IF FractionAtMost(OneMinusFraction(fraction),
                           TwoToMinus(MantissaBits + 1 - Log2(whole)))
    THEN NumberValue(FALSE, TRUE, whole + 1)
    ELSE NumberValue(FALSE, FALSE, whole)

\* the digits whole . fraction with the decimal point moved exponent places
\* to the right; the fraction does not end in 0
PointMoved(whole, fraction, exponent) ==
    LET zeros == [i \in 1..Abs(exponent) |-> 0]
    IN  IF exponent >= 0
        THEN [whole |-> whole \o SubSeq(fraction \o zeros, 1, exponent),
              fraction |-> StripTrailingZeros(
                               SubSeq(fraction, exponent + 1, Len(fraction)))]
        ELSE [whole |-> SubSeq(zeros \o whole, 1, Len(whole)),
              fraction |-> StripTrailingZeros(
                               SubSeq(zeros \o whole, Len(whole) + 1,
                                      Len(whole) - exponent) \o fraction)]

\* the double of the decimal digits whole . fraction
DecimalValue(whole, fraction) ==
    IF ValueOfDigits(whole, 10) >= Huge
    THEN NumberValue(FALSE, fraction = << >>, Huge)
    ELSE RoundToDouble(ValueOfDigits(whole, 10), fraction)

\* the first place of text that holds one of the characters, 0 if none
FirstIndexOf(text, characters) ==
    IF \E i \in 1..Len(text) : text[i] \in characters
    THEN CHOOSE i \in 1..Len(text) :
             /\ text[i] \in characters
             /\ \A k \in 1..(i - 1) : text[k] \notin characters
    ELSE 0

\* the digits of the radix prefixes 0x, 0o and 0b
RadixDigits ==
    <<"0", "1", "2", "3", "4", "5", "6", "7", "8", "9",
      "a", "b", "c", "d", "e", "f">>

RadixDigitsUpperCase ==
    <<"0", "1", "2", "3", "4", "5", "6", "7", "8", "9",
      "A", "B", "C", "D", "E", "F">>

\* the value of a digit below the radix, -1 for any other character
RadixDigitValue(c, radix) ==
    IF \E k \in 1..radix : RadixDigits[k] = c \/ RadixDigitsUpperCase[k] = c
    THEN (CHOOSE k \in 1..radix :
              RadixDigits[k] = c \/ RadixDigitsUpperCase[k] = c) - 1
    ELSE -1

\* the radix a prefix 0x, 0o or 0b announces, 0 if the text has none
RadixOfPrefix(text) ==
    IF Len(text) < 2 \/ text[1] # "0" THEN 0
    ELSE IF text[2] \in {"x", "X"} THEN 16
    ELSE IF text[2] \in {"o", "O"} THEN 8
    ELSE IF text[2] \in {"b", "B"} THEN 2
    ELSE 0

\* NonDecimalIntegerLiteral: the digits after the prefix
NonDecimalValue(digits, radix) ==
    IF digits = << >>
           \/ \E i \in 1..Len(digits) : RadixDigitValue(digits[i], radix) < 0
    THEN NotANumber
    ELSE NumberValue(FALSE, TRUE,
                     ValueOfDigits([i \in 1..Len(digits) |->
                                       RadixDigitValue(digits[i], radix)],
                                   radix))

\* the exponent of an ExponentPart after its e: a sign and digits; ok is
\* FALSE when the text is none
ExponentOf(text) ==
    LET signed == text # << >> /\ Head(text) \in {"+", "-"}
        digits == IF signed THEN Tail(text) ELSE text
        size == Min(ValueOfDigits(DigitsOf(digits), 10), ExponentCap)
    IN  IF digits = << >> \/ ~IsDigits(digits) THEN [ok |-> FALSE, value |-> 0]
        ELSE [ok |-> TRUE,
              value |-> IF signed /\ Head(text) = "-" THEN -size ELSE size]

InfinityText == <<"I", "n", "f", "i", "n", "i", "t", "y">>

\* no decimal literal
NoDecimal == [ok |-> FALSE, whole |-> << >>, fraction |-> << >>]

\* the digits before and after the decimal point of the number that the
\* digits with an optional fraction and an optional exponent of a
\* StrUnsignedDecimalLiteral denote; ok is FALSE when the text is none
DecimalDigits(text) ==
    LET e == FirstIndexOf(text, {"e", "E"})
        mantissa == IF e = 0 THEN text ELSE SubSeq(text, 1, e - 1)
        exponent == IF e = 0 THEN [ok |-> TRUE, value |-> 0]
                    ELSE ExponentOf(SubSeq(text, e + 1, Len(text)))
        point == FirstIndexOf(mantissa, {"."})
        whole == IF point = 0 THEN mantissa ELSE SubSeq(mantissa, 1, point - 1)
        fraction == IF point = 0 THEN << >>
                    ELSE SubSeq(mantissa, point + 1, Len(mantissa))
    IN  IF \/ ~exponent.ok
           \/ ~IsDigits(whole)
           \/ ~IsDigits(fraction)
           \/ (whole = << >> /\ fraction = << >>)
        THEN NoDecimal
        ELSE [ok |-> TRUE] @@ PointMoved(DigitsOf(whole), DigitsOf(fraction),
                                         exponent.value)

\* the number of the digits of a decimal literal
ValueOfDecimal(decimal) ==
    IF decimal.ok THEN DecimalValue(decimal.whole, decimal.fraction)
    ELSE NotANumber

\* StrUnsignedDecimalLiteral: Infinity or a decimal literal
UnsignedDecimalValue(text) ==
    IF text = InfinityText THEN NumberValue(FALSE, FALSE, Huge)
    ELSE ValueOfDecimal(DecimalDigits(text))

\* -x of a number
Negated(number) ==
    IF number.isNaN THEN number
    ELSE IF number.isInteger THEN NumberValue(FALSE, TRUE, -number.floor)
    ELSE NumberValue(FALSE, FALSE, -number.floor - 1)

\* Number(value) of a string (StringToNumber): white space around the
\* literal is dropped (the white space of the model is the space), the empty
\* text is 0
Number(value) ==
    LET text == trim(value)
        radix == RadixOfPrefix(text)
    IN  IF text = << >> THEN NumberValue(FALSE, TRUE, 0)
        ELSE IF radix # 0
        THEN NonDecimalValue(SubSeq(text, 3, Len(text)), radix)
        ELSE IF Head(text) = "-" THEN Negated(UnsignedDecimalValue(Tail(text)))
        ELSE IF Head(text) = "+" THEN UnsignedDecimalValue(Tail(text))
        ELSE UnsignedDecimalValue(text)

\* lifespan >= bound for an integer bound
NumberValueAtLeast(number, bound) == ~number.isNaN /\ number.floor >= bound

\* lifespan <= bound for an integer bound
NumberValueAtMost(number, bound) ==
    /\ ~number.isNaN
    /\ IF number.isInteger THEN number.floor <= bound ELSE number.floor < bound

isValidLifespan(value, minLifespan, maxLifespan) ==
    LET lifespanNumber == Number(value)
    IN  /\ ~lifespanNumber.isNaN
        /\ lifespanNumber.isInteger
        /\ NumberValueAtLeast(lifespanNumber, minLifespan)
        /\ NumberValueAtMost(lifespanNumber, maxLifespan)

(***************************************************************************)
(* The file name patterns and folder paths of the weekly notes.            *)
(***************************************************************************)
\* text.substring(from) and text.substring(from, to), positions from 0
substring(text, from, to) == SubSeq(text, from + 1, to)

StartsWithAt(text, i, prefix) ==
    /\ i + Len(prefix) - 1 <= Len(text)
    /\ SubSeq(text, i, i + Len(prefix) - 1) = prefix

\* the position after the run of characters other than character that
\* begins at position i
EndOfRunWithout(text, i, character) ==
    LET stops == {j \in i..Len(text) : text[j] = character}
    IN  IF stops = {} THEN Len(text) + 1
        ELSE CHOOSE j \in stops : \A k \in stops : j <= k

DateSegmentOpening == <<"{", "{", "d", "a", "t", "e", ":">>

SegmentClosing == <<"}", "}">>

\* /\{\{date:([^}]+)\}\}/ tried at position i, from 1: [^}]+ runs up to the
\* first } and cannot give any of it back
NoSegmentMatch ==
    [matched |-> FALSE, index |-> 0, whole |-> << >>, format |-> << >>]

DateSegmentAt(text, i) ==
    LET from == i + Len(DateSegmentOpening)
        to == EndOfRunWithout(text, from, "}")
    IN  IF /\ StartsWithAt(text, i, DateSegmentOpening)
           /\ to > from
           /\ StartsWithAt(text, to, SegmentClosing)
        THEN [matched |-> TRUE,
              index |-> i - 1,
              whole |-> SubSeq(text, i, to + 1),
              format |-> SubSeq(text, from, to - 1)]
        ELSE NoSegmentMatch

\* fileNamePattern.match(/\{\{date:([^}]+)\}\}/): the leftmost match
MatchDateSegment(text) ==
    LET starts == {i \in 1..Len(text) : DateSegmentAt(text, i).matched}
    IN  IF starts = {} THEN NoSegmentMatch
        ELSE DateSegmentAt(text, CHOOSE i \in starts : \A k \in starts : i <= k)

\* `[${text}]`
InBrackets(text) == <<"[">> \o text \o <<"]">>

\* the literal text after the segment is not wrapped
extractMomentFormatBareAfter(fileNamePattern, dynamicSegmentMatch) ==
    IF dynamicSegmentMatch.matched
    THEN LET beforeSegment ==
                 substring(fileNamePattern, 0, dynamicSegmentMatch.index)
             afterSegment ==
                 substring(fileNamePattern,
                           dynamicSegmentMatch.index
                               + Len(dynamicSegmentMatch.whole),
                           Len(fileNamePattern))
             wrappedBefore == IF beforeSegment # << >>
                              THEN InBrackets(beforeSegment) ELSE << >>
         IN  wrappedBefore \o dynamicSegmentMatch.format \o afterSegment
    ELSE InBrackets(fileNamePattern)

extractMomentFormat(fileNamePattern, dynamicSegmentMatch) ==
    IF dynamicSegmentMatch.matched
    THEN LET beforeSegment ==
                 substring(fileNamePattern, 0, dynamicSegmentMatch.index)
             afterSegment ==
                 substring(fileNamePattern,
                           dynamicSegmentMatch.index
                               + Len(dynamicSegmentMatch.whole),
                           Len(fileNamePattern))
             wrappedBefore == IF beforeSegment # << >>
                              THEN InBrackets(beforeSegment) ELSE << >>
             wrappedAfter == IF afterSegment # << >>
                             THEN InBrackets(afterSegment) ELSE << >>
         IN  wrappedBefore \o dynamicSegmentMatch.format \o wrappedAfter
    ELSE InBrackets(fileNamePattern)

extractMomentFormatFromPattern(fileNamePattern) ==
    extractMomentFormat(fileNamePattern, MatchDateSegment(fileNamePattern))

\* the position of the first character other than the space from position i
EndOfSpaces(text, i) ==
    LET stops == {j \in i..Len(text) : text[j] # " "}
    IN  IF stops = {} THEN Len(text) + 1
        ELSE CHOOSE j \in stops : \A k \in stops : j <= k

\* the position after {{\s*name\s*}} tried at position i, 0 without a match;
\* the white space of the model is the space
EndOfVariableAt(text, i, name) ==
    LET nameAt == EndOfSpaces(text, i + 2)
        closingAt == EndOfSpaces(text, nameAt + Len(name))
    IN  IF /\ StartsWithAt(text, i, <<"{", "{">>)
           /\ StartsWithAt(text, nameAt, name)
           /\ StartsWithAt(text, closingAt, SegmentClosing)
        THEN closingAt + 2
        ELSE 0

VariableStarts(text, name) ==
    {i \in 1..Len(text) : EndOfVariableAt(text, i, name) # 0}

\* text.replace(/{{\s*name\s*}}/g, () => replacement): every match from left
\* to right, the text between the matches is kept
RECURSIVE replaceVariable(_, _, _)
replaceVariable(text, name, replacement) ==
    IF VariableStarts(text, name) = {} THEN text
    ELSE LET i == CHOOSE j \in VariableStarts(text, name) :
                      \A k \in VariableStarts(text, name) : j <= k
         IN  SubSeq(text, 1, i - 1) \o replacement
                 \o replaceVariable(
                        SubSeq(text, EndOfVariableAt(text, i, name), Len(text)),
                        name, replacement)

\* the tokens of moment's format that the model knows
MomentTokens == {<<"Y", "Y", "Y", "Y">>, <<"M", "M">>, <<"D", "D">>}

MomentTokenValue(token, civil) ==
    IF token = <<"Y", "Y", "Y", "Y">> THEN padStart(NumberToString(civil.year), 4)
    ELSE IF token = <<"M", "M">> THEN padStart(NumberToString(civil.month), 2)
    ELSE padStart(NumberToString(civil.day), 2)

\* moment(date).format(format) on the civil date: [text] is literal text, a
\* character that begins no token stands for itself
RECURSIVE MomentFormatCivil(_, _)
MomentFormatCivil(civil, format) ==
    IF format = << >> THEN << >>
    ELSE IF \E token \in MomentTokens : StartsWithAt(format, 1, token)
    THEN LET token == CHOOSE t \in MomentTokens : StartsWithAt(format, 1, t)
         IN  MomentTokenValue(token, civil)
                 \o MomentFormatCivil(civil,
                        SubSeq(format, Len(token) + 1, Len(format)))
    ELSE IF Head(format) = "[" /\ EndOfRunWithout(format, 2, "]") <= Len(format)
    THEN SubSeq(format, 2, EndOfRunWithout(format, 2, "]") - 1)
             \o MomentFormatCivil(civil,
                    SubSeq(format, EndOfRunWithout(format, 2, "]") + 1,
                           Len(format)))
    ELSE <<Head(format)>> \o MomentFormatCivil(civil, Tail(format))

MomentFormat(date, format) == MomentFormatCivil(CivilFromDays(date), format)

\* moment(date).startOf('week'): the week of moment's locale begins on the
\* day dow
momentStartOfWeek(date, dow) == date - ((getDay(date) + 7 - dow) % 7)

\* moment(date).endOf('week'): the last millisecond of the last day
momentEndOfWeek(date, dow) == momentStartOfWeek(date, dow) + 6

VariableStartDate == <<"s", "t", "a", "r", "t", "_", "d", "a", "t", "e">>

VariableEndDate == <<"e", "n", "d", "_", "d", "a", "t", "e">>

VariableCurrentDate == <<"c", "u", "r", "r", "e", "n", "t", "_", "d", "a", "t", "e">>

VariableIndex == <<"i", "n", "d", "e", "x">>

parseJournalsVariables(text, date, defaultFormat, dow) ==
    replaceVariable(
        replaceVariable(
            replaceVariable(text, VariableStartDate,
                trim(MomentFormat(momentStartOfWeek(date, dow),
                                  defaultFormat))),
            VariableEndDate,
            trim(MomentFormat(momentEndOfWeek(date, dow), defaultFormat))),
        VariableCurrentDate,
        trim(MomentFormat(date, defaultFormat)))

(***************************************************************************)
(* Inputs of the model.                                                    *)
(***************************************************************************)
\* first days of the windows of birth dates: one holds 29 February 2004, a
\* Sunday, the other the turn of the year 2000
BirthAnchors == {DaysFromCivil(2004, 2, 25), DaysFromCivil(1999, 12, 30)}

BirthDates ==
    {a + k : a \in BirthAnchors, k \in 0..BirthWindow}
        \cup {DaysFromCivil(1990, 1, 1)}

LifespanSamples == {12, 20, 25}

Lifespans == (1..MaxLifespan) \cup LifespanSamples

\* a century, for two birth dates only
LongLifeInputs ==
    {<<DaysFromCivil(1990, 1, 1), 100, "Monday">>,
     <<DaysFromCivil(2004, 2, 29), 100, "sunday">>,
     <<DaysFromCivil(2000, 1, 1), 80, NoString>>}

CalendarInputs ==
    (BirthDates \X Lifespans \X WeekStartStrings) \cup LongLifeInputs

\* getTimezoneOffset() of the hosts of the model, in minutes: UTC+05:30,
\* UTC and UTC-05:00
TimezoneOffsets == {-330, 0, 300}

\* dates of the weekly notes of the model: a whole week, the leap day
NoteDates ==
    {DaysFromCivil(2024, 2, 26) + k : k \in 0..6}

\* basenames that do not parse under the pattern: free text, and a day that
\* does not exist
UnparseableBasenames ==
    {<<"n", "o", "t", "e", "s">>,
     <<"2", "0", "2", "4", "-", "0", "2", "-", "3", "0">>}

Basenames == {YearMonthDay(d) : d \in NoteDates} \cup UnparseableBasenames

\* the week-start settings createFilesRecord is called with
WeekStartDays == {"Monday", "sunday", "wednesday", "locale"}

\* the TFile arrays of the model: the path of a file is its place in the
\* vault listing, so that two files may share a basename
FileLists ==
    UNION {[1..n -> Basenames] : n \in 0..MaxFiles}

TFileOf(list, i) == [path |-> i, basename |-> list[i]]

\* getTimezoneOffset() of every host: UTC+14:00 .. UTC-12:00, in minutes
HostTimezoneOffsets == (-840)..720

\* dates handed to the codec: one-digit and two-digit months and days, a
\* leap day, the ends of a year, and years of fewer than four digits (a
\* note named 0999-12-31 or 0050-06-15 parses to such a date)
CodecDates ==
    {DaysFromCivil(2024, 3, 15), DaysFromCivil(2024, 1, 5),
     DaysFromCivil(2004, 2, 29), DaysFromCivil(1999, 12, 31),
     DaysFromCivil(1970, 1, 1), DaysFromCivil(999, 12, 31),
     DaysFromCivil(50, 6, 15)}

\* the YYYY-MM-DD text that names a calendar date
DateText(date) ==
    LET c == CivilFromDays(date)
    IN  padStart(NumberToString(c.year), 4) \o <<"-">>
            \o padStart(NumberToString(c.month), 2) \o <<"-">>
            \o padStart(NumberToString(c.day), 2)

\* the birth date strings handed to createLocalDateYYYYMMDD
DateStrings == {DateText(d) : d \in CodecDates}

\* toUpperCase of a lower-case ASCII letter
UpperCaseOf(c) ==
    UpperCaseLetters[CHOOSE k \in 1..26 : LowerCaseLetters[k] = c]

\* a day name in every letter case
LetterCases(name) ==
    {[i \in 1..Len(name) |-> IF i \in upper THEN UpperCaseOf(name[i])
                                ELSE name[i]] :
        upper \in SUBSET (1..Len(name))}

\* texts that are no day name: the empty string, the 'locale' setting, free
\* text, a part of a name and a name with a space after it
OtherTexts ==
    {<< >>,
     <<"l", "o", "c", "a", "l", "e">>,
     <<"I", "n", "v", "a", "l", "i", "d", "D", "a", "y">>,
     <<"b", "o", "g", "u", "s">>,
     <<"s", "u", "n">>,
     <<"m", "o", "n", "d", "a", "y", " ">>}

\* the weekStartsOn arguments of weekStartsOnStringToIndex
WeekStartArguments ==
    {StringOf(text) :
        text \in UNION {LetterCases(DayNames[i]) : i \in 1..7} \cup OtherTexts}
        \cup {UndefinedValue}

\* the index arguments of weekStartsOnIndexToString
IndexArguments ==
    {NumberOf(i) : i \in (-1)..7} \cup {UndefinedValue, NaN, NumberAndHalf(2)}

\* what the settings hand to generateCalendarData: the Date of the birth
\* date setting, Number(lifespanString) of the stored lifespan, the name of
\* the component and the week-start setting
SettingsArguments ==
    [birthDate : {DateOf(DaysFromCivil(2000, 1, 1)),
                  DateOf(DaysFromCivil(1990, 1, 1)),
                  DateOf(DaysFromCivil(2004, 2, 29)), InvalidDate},
     lifespan : {NumberOf(n) : n \in {-5, 0, 1, 80, 200, 201, 250}}
                    \cup {NumberAndHalf(n) : n \in {0, 80, 200}} \cup {NaN},
     componentName : {ComponentName},
     weekStartsOn : {UndefinedValue, StringOf(<<"m", "o", "n", "d", "a", "y">>)}]

\* what calling code may hand to generateCalendarData
ProgramArguments ==
    [birthDate : {DateOf(DaysFromCivil(1990, 1, 1)), Null, UndefinedValue,
                  StringOf(<<"n", "o", "t", " ", "a", " ", "d", "a", "t", "e">>)},
     lifespan : {NumberOf(1), NaN, UndefinedValue,
                 StringOf(<<"e", "i", "g", "h", "t", "y">>)},
     componentName : {ComponentName, StringOf(<< >>),
                      StringOf(<<" ", " ", " ">>), NumberOf(123), Null},
     weekStartsOn : {UndefinedValue}]

\* lifespans typed into the setting: whole numbers inside and outside the
\* bounds, free text, the empty text, fractions, signs and leading zeros
WholeLifespanTexts ==
    {<<"0">>,
     <<"1">>,
     <<"2">>,
     <<"7", "9">>,
     <<"8", "0">>,
     <<"1", "4", "9">>,
     <<"1", "5", "0">>,
     <<"1", "5", "1">>,
     <<"1", "9", "9">>,
     <<"2", "0", "0">>,
     <<"2", "0", "1">>,
     <<"2", "5", "0">>,
     <<"a", "b", "c">>,
     << >>,
     <<"8", "0", ".", "5">>,
     <<"1", ".", "5">>,
     <<"0", ".", "5">>,
     <<"2", "0", "0", ".", "5">>,
     <<"0", "0", "7">>,
     <<"-", "1">>,
     <<"-", "8", "0">>,
     <<"+", "8", "0">>}

\* other forms Number() reads or refuses: fractions of zeros, exponents,
\* spaces, radix prefixes, Infinity, and a number followed by text
OtherLifespanTexts ==
    {<<"8", "0", ".", "0">>,
     <<"8", "0", ".">>,
     <<"2", "0", "0", ".", "0", "0", "0">>,
     <<"1", "e", "2">>,
     <<"8", "e", "1">>,
     <<"2", "E", "2">>,
     <<"1", "e", "3">>,
     <<"0", ".", "8", "e", "2">>,
     <<"8", "0", "0", "e", "-", "1">>,
     <<"8", "0", "5", "e", "-", "1">>,
     <<"2", "0", "0", "0", "e", "-", "1">>,
     <<"1", "e">>,
     <<"e", "1">>,
     <<".">>,
     <<"1", ".", "2", ".", "3">>,
     <<"8", " ", "0">>,
     <<" ", "8", "0", " ">>,
     <<" ", " ">>,
     <<"0", "x", "5", "0">>,
     <<"0", "x", "C", "8">>,
     <<"0", "x", "c", "9">>,
     <<"0", "b", "1", "0", "1">>,
     <<"0", "o", "3", "1", "0">>,
     <<"0", "x">>,
     <<"-", "0", "x", "5", "0">>,
     <<"I", "n", "f", "i", "n", "i", "t", "y">>,
     <<"-", "I", "n", "f", "i", "n", "i", "t", "y">>,
     <<"1", "e", "4", "0", "0">>,
     <<"8", "0", "p", "x">>,
     <<"1", ",", "5">>}

\* numbers next to a whole number, nearer to it than doubles are to each
\* other and not so near
NearlyWholeLifespanTexts ==
    {<<"8", "0", ".", "0", "0", "0", "0", "0", "0", "0", "0", "0", "0", "0", "0", "0", "0", "1">>,
     <<"8", "0", ".", "0", "0", "0", "0", "0", "0", "0", "0", "0", "0", "0", "0", "0", "1">>,
     <<"2", "0", "0", ".", "0", "0", "0", "0", "0", "0", "0", "0", "0", "0", "0", "0", "0", "1">>,
     <<"2", "0", "0", ".", "0", "0", "0", "0", "0", "0", "0", "0", "0", "0", "0", "0", "1">>,
     <<"0", ".", "9", "9", "9", "9", "9", "9", "9", "9", "9", "9", "9", "9", "9", "9", "9", "9", "9">>,
     <<"0", ".", "9", "9", "9", "9", "9", "9", "9", "9", "9", "9", "9", "9", "9", "9", "9", "9">>,
     <<"1", "9", "9", ".", "9", "9", "9", "9", "9", "9", "9", "9", "9", "9", "9", "9", "9", "9">>,
     <<"1", "9", "9", ".", "9", "9", "9", "9", "9", "9", "9", "9", "9", "9", "9", "9", "9">>,
     <<"1", ".", "0", "0", "0", "0", "0", "0", "0", "0", "0", "0", "0", "0", "0", "0", "0", "1">>,
     <<"1", ".", "0", "0", "0", "0", "0", "0", "0", "0", "0", "0", "0", "0", "0", "0", "1">>,
     <<"1", "5", "0", ".", "0", "0", "0", "0", "0", "0", "0", "0", "0", "0", "0", "0", "0", "1">>,
     <<"0", ".", "0", "0", "0", "0", "0", "0", "0", "0", "0", "0", "0", "0", "0", "0", "0", "0", "1">>}

LifespanTexts ==
    WholeLifespanTexts \cup OtherLifespanTexts \cup NearlyWholeLifespanTexts

\* the bounds isValidLifespan is called with: those of the settings tab and
\* those of the tests
LifespanBounds ==
    {[minLifespan |-> MIN_LIFESPAN, maxLifespan |-> MAX_LIFESPAN],
     [minLifespan |-> 1, maxLifespan |-> 150]}

\* the literal texts before and after the date segment of a file name pattern
TextsBeforeSegment ==
    {<< >>, <<"W", "e", "e", "k", "l", "y", "-">>, <<"p", "r", "e", "f", "i", "x", "-">>, <<"a", "]", "b">>,
     <<"{", "{">>, <<"{", "{", "d", "a", "t", "e", ":", "M", "M", "}", "}", "/">>}

TextsAfterSegment ==
    {<< >>, <<"-", "n", "o", "t", "e">>, <<"-", "s", "u", "f", "f", "i", "x">>, <<"}">>,
     <<".", "{", "{", "d", "a", "t", "e", ":", "M", "M", "}", "}">>}

SegmentFormats ==
    {<<"D", "D", "-", "M", "M", "-", "Y", "Y", "Y", "Y">>, <<"G", "G", "G", "G", "-", "[", "W", "]", "W", "W">>,
     <<"Y", "Y", "Y", "Y", "-", "M", "M", "-", "D", "D">>, <<"Y", "Y", "Y", "Y">>}

\* patterns without one whole {{date:FORMAT}} segment
PatternsWithoutSegment ==
    {<< >>, <<"Y", "Y", "Y", "Y", "-", "W", "W">>, <<"{", "{", "d", "a", "t", "e", "}", "}">>, <<"{", "{", "d", "a", "t", "e", ":", "}", "}">>,
     <<"{", "{", "d", "a", "t", "e", ":", "Y", "Y", "Y", "Y", "}">>, <<"{", "{", " ", "d", "a", "t", "e", ":", "Y", "Y", "Y", "Y", " ", "}", "}">>,
     <<"{", "{", "d", "a", "t", "e", ":", "Y", "Y", "}", "Y", "}", "}">>, <<"{", "d", "a", "t", "e", ":", "Y", "Y", "Y", "Y", "}", "}">>}

FileNamePatterns ==
    {before \o DateSegmentOpening \o format \o SegmentClosing \o after :
         before \in TextsBeforeSegment, format \in SegmentFormats,
         after \in TextsAfterSegment}
        \cup PatternsWithoutSegment

\* folder paths and file names with the variables of the Journals plugin
JournalsTexts ==
    {<<"W", "e", "e", "k", ":", " ", "{", "{", "s", "t", "a", "r", "t", "_", "d", "a", "t", "e", "}", "}">>,
     <<"W", "e", "e", "k", ":", " ", "{", "{", "e", "n", "d", "_", "d", "a", "t", "e", "}", "}">>,
     <<"W", "e", "e", "k", " ", "{", "{", "i", "n", "d", "e", "x", "}", "}">>,
     <<"D", "a", "t", "e", ":", " ", "{", "{", "c", "u", "r", "r", "e", "n", "t", "_", "d", "a", "t", "e", "}", "}">>,
     <<"{", "{", "s", "t", "a", "r", "t", "_", "d", "a", "t", "e", "}", "}", " ", "t", "o", " ", "{", "{", "e", "n", "d", "_", "d", "a", "t", "e", "}", "}", " ", "-", " ", "W", "e", "e", "k", " ", "{", "{", "i", "n", "d", "e", "x", "}", "}">>,
     <<"{", "{", " ", "s", "t", "a", "r", "t", "_", "d", "a", "t", "e", " ", "}", "}">>,
     <<"{", "{", "s", "t", "a", "r", "t", "_", "d", "a", "t", "e", "}", "}">>,
     <<"{", "{", "e", "n", "d", "_", "d", "a", "t", "e", "}", "}", "/", "{", "{", "e", "n", "d", "_", "d", "a", "t", "e", "}", "}">>,
     <<"{", "{", " ", "c", "u", "r", "r", "e", "n", "t", "_", "d", "a", "t", "e", "}", "}", "{", "{", "s", "t", "a", "r", "t", "_", "d", "a", "t", "e", " ", " ", "}", "}">>,
     <<"J", "o", "u", "r", "n", "a", "l", "/", "n", "o", "t", "e", "s">>,
     <<"{", "{", "j", "o", "u", "r", "n", "a", "l", "_", "n", "a", "m", "e", "}", "}", "/", "{", "{", "s", "t", "a", "r", "t", "_", "d", "a", "t", "e", "}">>,
     <<"{", "s", "t", "a", "r", "t", "_", "d", "a", "t", "e", "}", "}", " ", "{", "{", "s", "t", "a", "r", "t", "d", "a", "t", "e", "}", "}">>,
     << >>}

\* the default format, the format of the tests and one with literal text
JournalsFormats ==
    {<<"Y", "Y", "Y", "Y", "-", "M", "M", "-", "D", "D">>, <<"Y", "Y", "Y", "Y", "/", "M", "M">>, <<"[", "W", "]", "D", "D", ".", "M", "M", ".", "Y", "Y", "Y", "Y">>}

\* the week of Friday 15 March 2024 and the days at the turn of 2024
JournalsDates ==
    {DaysFromCivil(2024, 3, 10) + i : i \in 0..7}
        \cup {DaysFromCivil(2023, 12, 31), DaysFromCivil(2024, 1, 1)}

\* the first day of the week of moment's locale: en, en-gb, ar
MomentWeekStarts == {0, 1, 6}

\* the arguments of the calls of createYearGroups on its own: the birth
\* dates, lifespans and birth week of its tests, and 29 February 2004
GroupBirthDates == {NullDate, DaysFromCivil(1990, 1, 1)}

GroupLifespans == {-10, -1, 0, 1, 12, 80}

GroupBirthWeeks == {DaysFromCivil(1990, 1, 1), DaysFromCivil(2004, 2, 29)}

GroupWeekStarts == {Undefined, 1}

\* the dates of the notes whose key is corrected: the week of the leap day
\* of 2024, the dates of the codec and a day in the middle of the year 999
\* (a note named 0999-06-15)
CorrectedNoteDates ==
    NoteDates \cup CodecDates \cup {DaysFromCivil(999, 6, 15)}

\* what mount() returns: the exports of the component, which have no
\* $destroy (Svelte 5), or an object of the legacy component API, which has
ComponentApis == {"exports", "legacy"}

\* the settings of the plugin and the sets of weekly notes of the vault
SettingsValues == 0..1

WeeklyNotesValues == 0..1

\* the day the module is loaded on: Wednesday 13 March 2024
LoadDay == DaysFromCivil(2024, 3, 13)

\* the instants the module may be loaded at: the midnight and the midday
LoadInstants == {Midnight(LoadDay), Midnight(LoadDay) + 1}

\* the last instant of the model's clock
LastInstant == Midnight(LoadDay + MaxClockDays) + 1

\* validatedWeekStartsOn of the rendered calendar
StatusWeekStarts == {Undefined, 1, 3}

\* week.startDate of the weeks next to the days of the clock
StatusWeeks(validatedWeekStartsOn) ==
    {startOfWeek(day, validatedWeekStartsOn) :
        day \in (LoadDay - 14)..(LoadDay + MaxClockDays + 14)}

\* values handed to setWeekStatus that are no valid Date
NoValidDates == {Null, InvalidDate}

(***************************************************************************)
(* State.                                                                  *)
(***************************************************************************)
VARIABLES
    pc,               \* position of the rendering of the yearly calendar
    intervalPolicy,   \* behaviour of the installed eachWeekOfInterval
    birthDate,        \* arguments of generateCalendarData
    lifespan,
    weekStartsOn,
    data,             \* the CalendarData returned by generateCalendarData
    yearGroups,       \* locals of createYearGroups
    endDate,
    currentStartDate,
    pcRecord,         \* position of createFilesRecord
    timezoneOffset,   \* getTimezoneOffset() of the host
    files,            \* arguments of createFilesRecord
    weekStartDay,
    fileIndex,        \* number of files forEach has visited
    record,           \* locals of createFilesRecord and of its callback
    dateKey,
    correctedKey,
    correctionCalls,  \* number of calls of weeklyNoteKeyCorrection so far
    pcCodec,          \* which codec function was applied last
    codecDate,        \* argument of dateToWeeklyNoteRecordKeyFormat
    codecKey,         \* the key it returned
    codecString,      \* argument of createLocalDateYYYYMMDD
    codecParsed,      \* what createLocalDateYYYYMMDD returned or threw
    codecFormatted,   \* dateToYYYYMMDD of the parsed date
    now,              \* the real clock: what new Date() and Date.now() read
    TODAY,            \* let TODAY of utils.ts
    statusWeekStartDate,  \* arguments of the last call of setWeekStatus
    statusWeekStartsOn,
    weekStatus,       \* what it returned or threw
    pcNormaliser,     \* which normaliser function was applied first
    hostLocale,       \* the default locale of the host
    normaliserArgument,  \* the string or the index that was normalised
    normaliserIndex,  \* result of weekStartsOnStringToIndex
    normaliserName,   \* result of weekStartsOnIndexToString
    pcGenerator,      \* whether generateCalendarData was called
    arguments,        \* its arguments
    calendarResult,   \* what it returned or threw
    pcValidator,      \* whether isValidLifespan was called
    validatorValue,   \* its arguments
    validatorBounds,
    validatorResult,  \* what it returned
    pcTemplate,       \* which of the pattern functions was called
    templateText,     \* the pattern or the text handed to it
    templateDate,     \* the date, the format and the first day of the
    templateFormat,   \* week of moment's locale of parseJournalsVariables
    templateWeekStart,
    templateResult,   \* what the function returned
    pcCorrection,     \* how often the key of a note was corrected
    correctionKey,    \* the key createFilesRecord builds for the note
    correctionWeekStart,  \* the week-start setting
    correctedOnce,    \* weeklyNoteKeyCorrection of the key
    correctedTwice,   \* weeklyNoteKeyCorrection of the corrected key
    pcView,           \* life cycle of the LifeCalendarView
    componentApi,     \* what mount() of the installed Svelte returns
    lifeCalendar,     \* this.lifeCalendar
    contentEl,        \* the components with elements in this.contentEl
    mountedComponents,  \* the components mounted and not destroyed
    componentProps,   \* the props each component was mounted with
    settings,         \* the settings of the plugin
    weeklyNotes       \* the weekly notes of the vault

calendarVars == <<pc, intervalPolicy, birthDate, lifespan, weekStartsOn, data,
                  yearGroups, endDate, currentStartDate>>

recordVars == <<pcRecord, timezoneOffset, files, weekStartDay, fileIndex,
                record, dateKey, correctedKey, correctionCalls>>

codecVars == <<pcCodec, codecDate, codecKey, codecString, codecParsed,
               codecFormatted>>

statusVars == <<now, TODAY, statusWeekStartDate, statusWeekStartsOn,
                weekStatus>>

normaliserVars == <<pcNormaliser, hostLocale, normaliserArgument,
                    normaliserIndex, normaliserName>>

generatorVars == <<pcGenerator, arguments, calendarResult>>

\* state of the functions that are called on their own
pureVars == <<codecVars, statusVars, normaliserVars, generatorVars>>

validatorVars == <<pcValidator, validatorValue, validatorBounds,
                   validatorResult>>

templateVars == <<pcTemplate, templateText, templateDate, templateFormat,
                  templateWeekStart, templateResult>>

correctionVars == <<pcCorrection, correctionKey, correctionWeekStart,
                    correctedOnce, correctedTwice>>

viewVars == <<pcView, componentApi, lifeCalendar, contentEl,
              mountedComponents, componentProps, settings, weeklyNotes>>

\* state of the settings tab and of the view
glueVars == <<validatorVars, templateVars, correctionVars, viewVars>>

vars == <<calendarVars, recordVars, pureVars, glueVars>>

NoData ==
    [validatedBirthDate |-> 0, validatedLifespan |-> 0,
     validatedWeekStartsOn |-> Undefined, birthWeek |-> 0, deathDate |-> 0,
     deathWeek |-> 0, weeks |-> << >>, hasWeeks |-> FALSE]

\* const record: Record<string, TFile> = {}
EmptyRecord == [k \in {} |-> 0]

CalendarIdle ==
    /\ pc = "start"
    /\ birthDate = 0
    /\ lifespan = 0
    /\ weekStartsOn = NoString
    /\ data = NoData
    /\ yearGroups = << >>
    /\ endDate = 0
    /\ currentStartDate = 0

RecordIdle ==
    /\ pcRecord = "start"
    /\ files = << >>
    /\ weekStartDay = NoString
    /\ fileIndex = 0
    /\ record = EmptyRecord
    /\ dateKey = << >>
    /\ correctedKey = << >>
    /\ correctionCalls = 0

NotParsed == [threw |-> FALSE, date |-> 0]

CodecIdle ==
    /\ pcCodec = "start"
    /\ codecDate = 0
    /\ codecKey = << >>
    /\ codecString = << >>
    /\ codecParsed = NotParsed
    /\ codecFormatted = << >>

NoStatus == [threw |-> FALSE, status |-> "none"]

\* the module was loaded at instant 0, setWeekStatus was not called
StatusIdle ==
    /\ now = 0
    /\ TODAY = 0
    /\ statusWeekStartDate = Null
    /\ statusWeekStartsOn = Undefined
    /\ weekStatus = NoStatus

NormaliserIdle ==
    /\ pcNormaliser = "start"
    /\ normaliserArgument = UndefinedValue
    /\ normaliserIndex = Undefined
    /\ normaliserName = UndefinedValue

NoArguments ==
    [birthDate |-> UndefinedValue, lifespan |-> UndefinedValue,
     componentName |-> UndefinedValue, weekStartsOn |-> UndefinedValue]

GeneratorIdle ==
    /\ pcGenerator = "start"
    /\ arguments = NoArguments
    /\ calendarResult = [threw |-> FALSE, data |-> NoCalendarData]

ValidatorIdle ==
    /\ pcValidator = "start"
    /\ validatorValue = << >>
    /\ validatorBounds = [minLifespan |-> 0, maxLifespan |-> 0]
    /\ validatorResult = FALSE

TemplateIdle ==
    /\ pcTemplate = "start"
    /\ templateText = << >>
    /\ templateDate = 0
    /\ templateFormat = << >>
    /\ templateWeekStart = 0
    /\ templateResult = << >>

NoCorrection == [threw |-> FALSE, key |-> << >>]

CorrectionIdle ==
    /\ pcCorrection = "start"
    /\ correctionKey = << >>
    /\ correctionWeekStart = NoString
    /\ correctedOnce = NoCorrection
    /\ correctedTwice = NoCorrection

\* this.lifeCalendar = undefined
NoComponent == 0

\* the LifeCalendarView was constructed and is not open yet
ViewIdle ==
    /\ pcView = "constructed"
    /\ componentApi = "exports"
    /\ lifeCalendar = NoComponent
    /\ contentEl = {}
    /\ mountedComponents = {}
    /\ componentProps = << >>
    /\ settings = 0
    /\ weeklyNotes = 0

GlueIdle ==
    /\ ValidatorIdle
    /\ TemplateIdle
    /\ CorrectionIdle
    /\ ViewIdle

PureIdle ==
    /\ CodecIdle
    /\ StatusIdle
    /\ NormaliserIdle
    /\ GeneratorIdle
    /\ hostLocale = "en-US"

\* the yearly calendar is about to be rendered
Init ==
    /\ CalendarIdle
    /\ RecordIdle
    /\ PureIdle
    /\ GlueIdle
    /\ intervalPolicy \in IntervalPolicies
    /\ timezoneOffset = 0

\* the record of weekly note files is about to be built
InitRecord ==
    /\ CalendarIdle
    /\ RecordIdle
    /\ PureIdle
    /\ GlueIdle
    /\ intervalPolicy = "reverse"
    /\ timezoneOffset \in TimezoneOffsets

\* CalendarBase calls generateCalendarData(birthDate, lifespan, name, weekStartsOn)
GenerateCalendarData ==
    /\ pc = "start"
    /\ \E in \in CalendarInputs :
          /\ birthDate' = in[1]
          /\ lifespan' = in[2]
          /\ weekStartsOn' = in[3]
          /\ data' = CalendarDataOf(in[1], in[2], in[3], intervalPolicy)
    /\ pc' = "generated"
    /\ UNCHANGED <<intervalPolicy, yearGroups, endDate, currentStartDate, recordVars, pureVars,
                   glueVars>>

\* the parameter check without the test of the birth date
InvalidGroupParametersAnyBirthDate(validatedBirthDate, validatedLifespan, yearsPerGroup) ==
    \/ validatedLifespan <= 0
    \/ yearsPerGroup <= 0

\* !validatedBirthDate || validatedLifespan <= 0 || yearsPerGroup <= 0
InvalidGroupParameters(validatedBirthDate, validatedLifespan, yearsPerGroup) ==
    \/ validatedBirthDate = NullDate
    \/ validatedLifespan <= 0
    \/ yearsPerGroup <= 0

\* createYearGroups up to its loop: the locals and the parameter check
CreateYearGroupsEnter ==
    /\ pc = "generated"
    /\ yearGroups' = << >>
    /\ endDate' = addYears(data.birthWeek, data.validatedLifespan)
    /\ currentStartDate' = data.birthWeek
    /\ pc' = IF InvalidGroupParameters(data.validatedBirthDate,
                                       data.validatedLifespan, YEAR_GROUP_SIZE)
             THEN "done" ELSE "loop"
    /\ UNCHANGED <<intervalPolicy, birthDate, lifespan, weekStartsOn, data, recordVars, pureVars,
                   glueVars>>

\* number of groups of YEAR_GROUP_SIZE years a lifespan is expected to need
CeilGroups(years) == (years + YEAR_GROUP_SIZE - 1) \div YEAR_GROUP_SIZE

\* the end date of the group that starts at start when n groups exist
GroupEndDate(start, validatedLifespan, n) ==
    subWeeks(addYears(start,
                      Min(validatedLifespan - n * YEAR_GROUP_SIZE,
                          YEAR_GROUP_SIZE)),
             1)

\* one iteration of the while loop of createYearGroups
GroupIteration ==
    /\ pc = "loop"
    /\ currentStartDate < endDate
    /\ Len(yearGroups) < CeilGroups(data.validatedLifespan) + MaxOverrun
    /\ LET currentEndDate == GroupEndDate(currentStartDate,
                                          data.validatedLifespan,
                                          Len(yearGroups))
           weekIntervals == generateWeekIntervals(currentStartDate,
                                currentEndDate, data.validatedWeekStartsOn,
                                intervalPolicy)
       IN  /\ yearGroups' = Append(yearGroups, createWeekObjects(weekIntervals))
           /\ currentStartDate' = addWeeks(currentEndDate, 1)
    /\ UNCHANGED <<pc, intervalPolicy, birthDate, lifespan, weekStartsOn, data,
                   endDate, recordVars, pureVars,
                   glueVars>>

\* the loop condition fails: createYearGroups returns yearGroups
CreateYearGroupsReturn ==
    /\ pc = "loop"
    /\ ~(currentStartDate < endDate)
    /\ pc' = "done"
    /\ UNCHANGED <<intervalPolicy, birthDate, lifespan, weekStartsOn, data,
                   yearGroups, endDate, currentStartDate, recordVars, pureVars,
                   glueVars>>

Next ==
    \/ GenerateCalendarData
    \/ CreateYearGroupsEnter
    \/ GroupIteration
    \/ CreateYearGroupsReturn

Spec == Init /\ [][Next]_vars

(***************************************************************************)
(* createFilesRecord.                                                      *)
(***************************************************************************)
\* createFilesRecord(fileNamePattern, weekStartDay, files) is called
CreateFilesRecordCall ==
    /\ pcRecord = "start"
    /\ \E list \in FileLists, w \in WeekStartDays :
          /\ files' = [i \in 1..Len(list) |-> TFileOf(list, i)]
          /\ weekStartDay' = w
    /\ record' = EmptyRecord
    /\ fileIndex' = 0
    /\ pcRecord' = "forEach"
    /\ UNCHANGED <<timezoneOffset, dateKey, correctedKey, correctionCalls,
                   calendarVars, pureVars,
                   glueVars>>

\* one call of the forEach callback, on the next file
ForEachFile ==
    /\ pcRecord = "forEach"
    /\ fileIndex < Len(files)
    /\ LET file == files[fileIndex + 1]
           momentObject == MomentParse(file.basename)
           key == MomentFormatKey(momentObject.date, timezoneOffset)
           corrected == weeklyNoteKeyCorrection(key, weekStartDay,
                                                timezoneOffset)
       IN  IF ~momentObject.valid
           THEN /\ fileIndex' = fileIndex + 1
                /\ UNCHANGED <<pcRecord, record, dateKey, correctedKey,
                               correctionCalls>>
           ELSE /\ dateKey' = key
                /\ correctionCalls' = correctionCalls + 1
                /\ correctedKey' = corrected.key
                /\ IF corrected.threw
                   THEN /\ pcRecord' = "threw"
                        /\ UNCHANGED <<record, fileIndex>>
                   ELSE /\ record' = RecordPut(record, corrected.key, file)
                        /\ fileIndex' = fileIndex + 1
                        /\ UNCHANGED pcRecord
    /\ UNCHANGED <<timezoneOffset, files, weekStartDay, calendarVars, pureVars,
                   glueVars>>

\* forEach has visited every file: createFilesRecord returns record
CreateFilesRecordReturn ==
    /\ pcRecord = "forEach"
    /\ fileIndex = Len(files)
    /\ pcRecord' = "done"
    /\ UNCHANGED <<timezoneOffset, files, weekStartDay, fileIndex, record,
                   dateKey, correctedKey, correctionCalls, calendarVars, pureVars,
                   glueVars>>

NextRecord ==
    \/ CreateFilesRecordCall
    \/ ForEachFile
    \/ CreateFilesRecordReturn

SpecRecord == InitRecord /\ [][NextRecord]_vars

(***************************************************************************)
(* The date/key codec, called on a date or on a date string.               *)
(***************************************************************************)
InitCodec ==
    /\ CalendarIdle
    /\ RecordIdle
    /\ PureIdle
    /\ GlueIdle
    /\ intervalPolicy = "reverse"
    /\ timezoneOffset \in HostTimezoneOffsets

\* dateToWeeklyNoteRecordKeyFormat(date), and the date of the key read back
\* as WeekBlock and weeklyNoteKeyCorrection read it
FormatKey ==
    /\ pcCodec = "start"
    /\ \E date \in CodecDates :
          LET key == dateToWeeklyNoteRecordKeyFormat(date, timezoneOffset)
          IN  /\ codecDate' = date
              /\ codecKey' = key
              /\ codecParsed' = createLocalDateYYYYMMDD(slice(key, 5, 15))
    /\ pcCodec' = "key"
    /\ UNCHANGED <<codecString, codecFormatted, calendarVars, recordVars, glueVars,
                   statusVars, normaliserVars, generatorVars>>

\* createLocalDateYYYYMMDD(dateString), and dateToYYYYMMDD of its result
ParseDateString ==
    /\ pcCodec = "start"
    /\ \E dateString \in DateStrings :
          LET parsed == createLocalDateYYYYMMDD(dateString)
          IN  /\ codecString' = dateString
              /\ codecParsed' = parsed
              /\ codecFormatted' = IF parsed.threw THEN << >>
                                   ELSE dateToYYYYMMDD(parsed.date)
    /\ pcCodec' = "string"
    /\ UNCHANGED <<codecDate, codecKey, calendarVars, recordVars, glueVars,
                   statusVars, normaliserVars, generatorVars>>

NextCodec ==
    \/ FormatKey
    \/ ParseDateString

SpecCodec == InitCodec /\ [][NextCodec]_vars

(***************************************************************************)
(* The week classifier and its cached current date.                        *)
(***************************************************************************)
\* date-fns isThisWeek(date, options) is isSameWeek(date, Date.now(),
\* options): the two lie in the week of the same start
isThisWeek(date, validatedWeekStartsOn) ==
    startOfWeek(date.n, validatedWeekStartsOn)
        = startOfWeek(DayOf(now), validatedWeekStartsOn)

\* [threw |-> TRUE] stands for the Error the function throws
setWeekStatus(weekStartDate, validatedWeekStartsOn) ==
    IF ~IsValidDateObject(weekStartDate)
    THEN [threw |-> TRUE, status |-> "none"]
    ELSE IF isThisWeek(weekStartDate, validatedWeekStartsOn)
    THEN [threw |-> FALSE, status |-> "present"]
    ELSE IF Midnight(weekStartDate.n) < TODAY
    THEN [threw |-> FALSE, status |-> "past"]
    ELSE [threw |-> FALSE, status |-> "future"]

\* let TODAY = new Date() runs when the module is loaded
InitStatus ==
    /\ CalendarIdle
    /\ RecordIdle
    /\ CodecIdle
    /\ NormaliserIdle
    /\ GeneratorIdle
    /\ GlueIdle
    /\ hostLocale = "en-US"
    /\ intervalPolicy = "reverse"
    /\ timezoneOffset = 0
    /\ now \in LoadInstants
    /\ TODAY = now
    /\ statusWeekStartDate = Null
    /\ statusWeekStartsOn = Undefined
    /\ weekStatus = NoStatus

\* time passes
ClockAdvances ==
    /\ now < LastInstant
    /\ now' = now + 1
    /\ UNCHANGED <<TODAY, statusWeekStartDate, statusWeekStartsOn, weekStatus,
                   calendarVars, recordVars, glueVars, codecVars,
                   normaliserVars, generatorVars>>

\* updateToday()
UpdateToday ==
    /\ TODAY' = now
    /\ UNCHANGED <<now, statusWeekStartDate, statusWeekStartsOn, weekStatus,
                   calendarVars, recordVars, glueVars, codecVars,
                   normaliserVars, generatorVars>>

\* setWeekStatus(week.startDate, data.validatedWeekStartsOn) for a week of
\* the calendar, or a call with a value that is no valid Date
SetWeekStatus ==
    /\ \E validatedWeekStartsOn \in StatusWeekStarts :
          \E weekStartDate \in
                {DateOf(w) : w \in StatusWeeks(validatedWeekStartsOn)}
                    \cup NoValidDates :
              /\ statusWeekStartDate' = weekStartDate
              /\ statusWeekStartsOn' = validatedWeekStartsOn
              /\ weekStatus' = setWeekStatus(weekStartDate, validatedWeekStartsOn)
    /\ UNCHANGED <<now, TODAY, calendarVars, recordVars, glueVars, codecVars,
                   normaliserVars, generatorVars>>

NextStatus ==
    \/ ClockAdvances
    \/ UpdateToday
    \/ SetWeekStatus

SpecStatus == InitStatus /\ [][NextStatus]_vars

(***************************************************************************)
(* The week-start normaliser, called on a string or on an index.           *)
(***************************************************************************)
InitNormaliser ==
    /\ CalendarIdle
    /\ RecordIdle
    /\ CodecIdle
    /\ StatusIdle
    /\ NormaliserIdle
    /\ GeneratorIdle
    /\ GlueIdle
    /\ intervalPolicy = "reverse"
    /\ timezoneOffset = 0
    /\ hostLocale \in HostLocales

\* weekStartsOnIndexToString(weekStartsOnStringToIndex(weekStartsOn))
StringToIndexToString ==
    /\ pcNormaliser = "start"
    /\ \E text \in WeekStartArguments :
          LET index == weekStartsOnStringToIndexAt(text, hostLocale)
          IN  /\ normaliserArgument' = text
              /\ normaliserIndex' = index
              /\ normaliserName' = weekStartsOnIndexToString(IndexValue(index))
    /\ pcNormaliser' = "string"
    /\ UNCHANGED <<hostLocale, calendarVars, recordVars, glueVars, codecVars, statusVars,
                   generatorVars>>

\* weekStartsOnStringToIndex(weekStartsOnIndexToString(index))
IndexToStringToIndex ==
    /\ pcNormaliser = "start"
    /\ \E index \in IndexArguments :
          LET name == weekStartsOnIndexToString(index)
          IN  /\ normaliserArgument' = index
              /\ normaliserName' = name
              /\ normaliserIndex' = weekStartsOnStringToIndexAt(name, hostLocale)
    /\ pcNormaliser' = "index"
    /\ UNCHANGED <<hostLocale, calendarVars, recordVars, glueVars, codecVars, statusVars,
                   generatorVars>>

NextNormaliser ==
    \/ StringToIndexToString
    \/ IndexToStringToIndex

SpecNormaliser == InitNormaliser /\ [][NextNormaliser]_vars

(***************************************************************************)
(* generateCalendarData called with what the settings hold, and with what  *)
(* calling code may pass.                                                  *)
(***************************************************************************)
\* generateCalendarData(birthDate, lifespan, componentName, weekStartsOn)
\* with one of the given arguments
CallGenerateCalendarData(from) ==
    /\ pcGenerator = "start"
    /\ \E args \in from :
          /\ arguments' = args
          /\ calendarResult' =
                 generateCalendarData(args.birthDate, args.lifespan,
                     args.componentName, args.weekStartsOn, hostLocale,
                     intervalPolicy)
    /\ pcGenerator' = "returned"
    /\ UNCHANGED <<calendarVars, recordVars, glueVars, codecVars, statusVars,
                   normaliserVars>>

InitSettings ==
    /\ CalendarIdle
    /\ RecordIdle
    /\ PureIdle
    /\ GlueIdle
    /\ intervalPolicy \in IntervalPolicies
    /\ timezoneOffset = 0

\* CalendarBase renders with the settings of the plugin
GenerateFromSettings == CallGenerateCalendarData(SettingsArguments)

NextSettings ==
    \/ GenerateFromSettings

SpecSettings == InitSettings /\ [][NextSettings]_vars

\* code calls generateCalendarData and setWeekStatus with arguments of its own
GenerateFromProgram == CallGenerateCalendarData(ProgramArguments)

NextProgram ==
    \/ GenerateFromProgram
    \/ SetWeekStatus

SpecProgram == InitStatus /\ [][NextProgram]_vars

(***************************************************************************)
(* The lifespan validator of the settings tab.                             *)
(***************************************************************************)
InitValidator ==
    /\ CalendarIdle
    /\ RecordIdle
    /\ PureIdle
    /\ GlueIdle
    /\ intervalPolicy = "reverse"
    /\ timezoneOffset = 0

\* onChange of the lifespan setting: isValidLifespan(value, min, max)
IsValidLifespanCall ==
    /\ pcValidator = "start"
    /\ \E value \in LifespanTexts, bounds \in LifespanBounds :
          /\ validatorValue' = value
          /\ validatorBounds' = bounds
          /\ validatorResult' = isValidLifespan(value, bounds.minLifespan,
                                                bounds.maxLifespan)
    /\ pcValidator' = "returned"
    /\ UNCHANGED <<calendarVars, recordVars, pureVars, templateVars,
                   correctionVars, viewVars>>

NextValidator ==
    \/ IsValidLifespanCall

SpecValidator == InitValidator /\ [][NextValidator]_vars

(***************************************************************************)
(* The pattern functions of the weekly notes, each called on its own.      *)
(***************************************************************************)
InitTemplates ==
    /\ CalendarIdle
    /\ RecordIdle
    /\ PureIdle
    /\ GlueIdle
    /\ intervalPolicy = "reverse"
    /\ timezoneOffset = 0

\* extractMomentFormatFromPattern(fileNamePattern)
ExtractMomentFormatFromPatternCall ==
    /\ pcTemplate = "start"
    /\ \E fileNamePattern \in FileNamePatterns :
          /\ templateText' = fileNamePattern
          /\ templateResult' = extractMomentFormatFromPattern(fileNamePattern)
    /\ pcTemplate' = "extracted"
    /\ UNCHANGED <<templateDate, templateFormat, templateWeekStart>>
    /\ UNCHANGED <<calendarVars, recordVars, pureVars, validatorVars,
                   correctionVars, viewVars>>

\* parseJournalsVariables(text, date, defaultFormat) under a locale of moment
ParseJournalsVariablesCall ==
    /\ pcTemplate = "start"
    /\ \E text \in JournalsTexts, date \in JournalsDates,
          defaultFormat \in JournalsFormats, dow \in MomentWeekStarts :
          /\ templateText' = text
          /\ templateDate' = date
          /\ templateFormat' = defaultFormat
          /\ templateWeekStart' = dow
          /\ templateResult' =
                 parseJournalsVariables(text, date, defaultFormat, dow)
    /\ pcTemplate' = "parsed"
    /\ UNCHANGED <<calendarVars, recordVars, pureVars, validatorVars,
                   correctionVars, viewVars>>

NextTemplates ==
    \/ ExtractMomentFormatFromPatternCall
    \/ ParseJournalsVariablesCall

SpecTemplates == InitTemplates /\ [][NextTemplates]_vars

(***************************************************************************)
(* createYearGroups called on its own, with arguments of any kind.         *)
(***************************************************************************)
InitYearGroups ==
    /\ CalendarIdle
    /\ RecordIdle
    /\ PureIdle
    /\ GlueIdle
    /\ intervalPolicy \in IntervalPolicies
    /\ timezoneOffset = 0

\* createYearGroups(validatedBirthDate, validatedLifespan, birthWeek,
\* validatedWeekStartsOn) is called
CreateYearGroupsCall ==
    /\ pc = "start"
    /\ \E validatedBirthDate \in GroupBirthDates,
          validatedLifespan \in GroupLifespans,
          birthWeek \in GroupBirthWeeks,
          validatedWeekStartsOn \in GroupWeekStarts :
          data' = [NoData EXCEPT
                      !.validatedBirthDate = validatedBirthDate,
                      !.validatedLifespan = validatedLifespan,
                      !.birthWeek = birthWeek,
                      !.validatedWeekStartsOn = validatedWeekStartsOn]
    /\ pc' = "generated"
    /\ UNCHANGED <<intervalPolicy, birthDate, lifespan, weekStartsOn,
                   yearGroups, endDate, currentStartDate, recordVars,
                   pureVars, glueVars>>

NextYearGroups ==
    \/ CreateYearGroupsCall
    \/ CreateYearGroupsEnter
    \/ GroupIteration
    \/ CreateYearGroupsReturn

SpecYearGroups == InitYearGroups /\ [][NextYearGroups]_vars

(***************************************************************************)
(* The key correction applied to the key of a note, and to its result.     *)
(***************************************************************************)
InitCorrection ==
    /\ CalendarIdle
    /\ RecordIdle
    /\ PureIdle
    /\ GlueIdle
    /\ intervalPolicy = "reverse"
    /\ timezoneOffset \in TimezoneOffsets

\* weeklyNoteKeyCorrection(dateKey, weekStartDay) on the key that
\* createFilesRecord builds for a note of some date
KeyCorrectionCall ==
    /\ pcCorrection = "start"
    /\ \E date \in CorrectedNoteDates, w \in WeekStartDays :
          /\ correctionKey' = MomentFormatKey(date, timezoneOffset)
          /\ correctionWeekStart' = w
          /\ correctedOnce' =
                 weeklyNoteKeyCorrection(MomentFormatKey(date, timezoneOffset),
                                         w, timezoneOffset)
    /\ pcCorrection' = "once"
    /\ UNCHANGED <<correctedTwice, calendarVars, recordVars, pureVars,
                   validatorVars, templateVars, viewVars>>

\* weeklyNoteKeyCorrection on the corrected key
KeyCorrectionAgain ==
    /\ pcCorrection = "once"
    /\ ~correctedOnce.threw
    /\ correctedTwice' = weeklyNoteKeyCorrection(correctedOnce.key,
                             correctionWeekStart, timezoneOffset)
    /\ pcCorrection' = "twice"
    /\ UNCHANGED <<correctionKey, correctionWeekStart, correctedOnce,
                   calendarVars, recordVars, pureVars, validatorVars,
                   templateVars, viewVars>>

NextCorrection ==
    \/ KeyCorrectionCall
    \/ KeyCorrectionAgain

SpecCorrection == InitCorrection /\ [][NextCorrection]_vars

(***************************************************************************)
(* The LifeCalendarView: onOpen, the refreshes and onClose.                *)
(***************************************************************************)
InitView ==
    /\ CalendarIdle
    /\ RecordIdle
    /\ PureIdle
    /\ ValidatorIdle
    /\ TemplateIdle
    /\ CorrectionIdle
    /\ intervalPolicy = "reverse"
    /\ timezoneOffset = 0
    /\ pcView = "constructed"
    /\ componentApi \in ComponentApis
    /\ lifeCalendar = NoComponent
    /\ contentEl = {}
    /\ mountedComponents = {}
    /\ componentProps = << >>
    /\ settings \in SettingsValues
    /\ weeklyNotes \in WeeklyNotesValues

\* buildComponentProps(): the props are read from the settings and from
\* the notes of the vault when the component is mounted
buildComponentProps(currentSettings, currentNotes) ==
    [settings |-> currentSettings, allWeeklyNotes |-> currentNotes]

\* this.lifeCalendar.$destroy?.(): the components that stay mounted
AfterDestroy(mounted, component, api) ==
    IF api = "legacy" THEN mounted \ {component} ELSE mounted

\* cleanupComponent(): the components that stay mounted
AfterCleanup(mounted, component, api) ==
    IF component # NoComponent THEN AfterDestroy(mounted, component, api)
    ELSE mounted

\* onOpen(): mountComponent()
OnOpen ==
    /\ pcView = "constructed"
    /\ componentProps' = Append(componentProps,
                                buildComponentProps(settings, weeklyNotes))
    /\ lifeCalendar' = Len(componentProps) + 1
    /\ contentEl' = contentEl \cup {Len(componentProps) + 1}
    /\ mountedComponents' = mountedComponents \cup {Len(componentProps) + 1}
    /\ pcView' = "open"
    /\ UNCHANGED <<componentApi, settings, weeklyNotes, calendarVars,
                   recordVars, pureVars, validatorVars, templateVars,
                   correctionVars>>

\* refreshLifeCalendarView(app) with the settings and notes it finds: the
\* view is refreshed when it is in a leaf of the workspace; refreshView()
\* is cleanupComponent() and mountComponent()
RefreshLifeCalendarView(currentSettings, currentNotes) ==
    IF pcView = "open"
    THEN /\ Len(componentProps) < MaxComponents
         /\ componentProps' =
                Append(componentProps,
                       buildComponentProps(currentSettings, currentNotes))
         /\ lifeCalendar' = Len(componentProps) + 1
         /\ contentEl' = {Len(componentProps) + 1}
         /\ mountedComponents' =
                AfterCleanup(mountedComponents, lifeCalendar, componentApi)
                    \cup {Len(componentProps) + 1}
    ELSE UNCHANGED <<componentProps, lifeCalendar, contentEl,
                     mountedComponents>>

\* a setting is changed in the settings tab: saveSettings() and
\* refreshLifeCalendarView()
SettingsChange ==
    /\ \E value \in SettingsValues \ {settings} :
          /\ settings' = value
          /\ RefreshLifeCalendarView(value, weeklyNotes)
    /\ UNCHANGED <<pcView, componentApi, weeklyNotes, calendarVars,
                   recordVars, pureVars, validatorVars, templateVars,
                   correctionVars>>

\* a file is created or deleted in the vault: onFileChange
VaultFileChange ==
    /\ pcView # "closed"
    /\ \E value \in WeeklyNotesValues \ {weeklyNotes} :
          /\ weeklyNotes' = value
          /\ RefreshLifeCalendarView(settings, value)
    /\ UNCHANGED <<pcView, componentApi, settings, calendarVars, recordVars,
                   pureVars, validatorVars, templateVars, correctionVars>>

\* onClose(): cleanupComponent()
OnClose ==
    /\ pcView = "open"
    /\ mountedComponents' =
           AfterCleanup(mountedComponents, lifeCalendar, componentApi)
    /\ lifeCalendar' = NoComponent
    /\ contentEl' = {}
    /\ pcView' = "closed"
    /\ UNCHANGED <<componentApi, componentProps, settings, weeklyNotes,
                   calendarVars, recordVars, pureVars, validatorVars,
                   templateVars, correctionVars>>

NextView ==
    \/ OnOpen
    \/ SettingsChange
    \/ VaultFileChange
    \/ OnClose

SpecView == InitView /\ [][NextView]_vars

TypeOK ==
    /\ pc \in {"start", "generated", "loop", "done"}
    /\ intervalPolicy \in IntervalPolicies
    /\ pcRecord \in {"start", "forEach", "threw", "done"}
    /\ fileIndex \in 0..Len(files)

(***************************************************************************)
(* Properties of the calendar generator and the year-grouping engine.      *)
(***************************************************************************)
\* the weekday every week of the rendering is configured to start on
ConfiguredWeekStart == WeekStartOption(data.validatedWeekStartsOn)

RECURSIVE SumOfLengths(_)
SumOfLengths(groups) ==
    IF groups = << >> THEN 0
    ELSE Len(groups[Len(groups)]) + SumOfLengths(SubSeq(groups, 1, Len(groups) - 1))

\* C1: the weeks returned by generateCalendarData start at birthWeek and
\* each next week starts exactly 7 days after the one before it.
C1_FlatWeeksConsecutive ==
    pc # "start" =>
        /\ Len(data.weeks) >= 1
        /\ data.weeks[1].startDate = data.birthWeek
        /\ \A i \in 1..(Len(data.weeks) - 1) :
              data.weeks[i + 1].startDate = data.weeks[i].startDate + 7

C1_Witness ==
    /\ pc = "generated"
    /\ Len(data.weeks) > 1000
    /\ data.birthWeek < birthDate

\* C2: the week list of generateCalendarData is not empty, hasWeeks is
\* true, and its last week is deathWeek, the week that holds the day
\* lifespan years after the birth date.
C2_FlatWeeksReachDeathWeek ==
    pc # "start" =>
        LET last == data.weeks[Len(data.weeks)].startDate
            born == CivilFromDays(birthDate)
            died == CivilFromDays(data.deathDate)
        IN  /\ data.hasWeeks
            /\ Len(data.weeks) >= 1
            /\ last = data.deathWeek
            /\ last <= data.deathDate /\ data.deathDate <= last + 6
            /\ died.year = born.year + data.validatedLifespan
            /\ died.month = born.month

C2_Witness ==
    /\ pc = "generated"
    /\ data.deathWeek < data.deathDate
    /\ data.weeks[Len(data.weeks)].startDate = data.deathWeek

\* C3: every week of the flat list and of every group starts on the
\* configured week-start weekday; birthWeek is on that weekday and is not
\* later than the birth date.
C3_WeeksOnWeekStartDay ==
    pc # "start" =>
        /\ getDay(data.birthWeek) = ConfiguredWeekStart
        /\ data.birthWeek <= birthDate
        /\ \A i \in 1..Len(data.weeks) :
              getDay(data.weeks[i].startDate) = ConfiguredWeekStart
        /\ \A k \in 1..Len(yearGroups) : \A i \in 1..Len(yearGroups[k]) :
              getDay(yearGroups[k][i].startDate) = ConfiguredWeekStart

C3_Witness ==
    /\ pc = "done"
    /\ Len(yearGroups) = 3
    /\ data.validatedWeekStartsOn = 3
    /\ getDay(currentStartDate) # 3
    /\ Len(yearGroups[3]) > 0

\* C4: createYearGroups produces exactly ceil(lifespan / 10) groups.
C4_GroupCount ==
    /\ pc = "done" => Len(yearGroups) = CeilGroups(data.validatedLifespan)
    /\ Len(yearGroups) <= CeilGroups(data.validatedLifespan)

\* C5: on each iteration of the loop of createYearGroups currentStartDate
\* strictly advances (and so reaches endDate).
C5_LoopAdvances ==
    [][GroupIteration => currentStartDate' > currentStartDate]_vars

\* C6: the lengths of the groups of createYearGroups add up to the length
\* of the flat week list of generateCalendarData.
C6_GroupsSumToFlat ==
    pc = "done" => SumOfLengths(yearGroups) = Len(data.weeks)

\* C7: in the flat list and in every group each week's index is its
\* 0-based position, and start dates are strictly increasing.
C7_IndexIsPosition ==
    /\ \A i \in 1..Len(data.weeks) : data.weeks[i].index = i - 1
    /\ \A k \in 1..Len(yearGroups) :
          /\ \A i \in 1..Len(yearGroups[k]) : yearGroups[k][i].index = i - 1
          /\ \A i \in 1..(Len(yearGroups[k]) - 1) :
                yearGroups[k][i].startDate < yearGroups[k][i + 1].startDate

\* C8: every group that is followed by another group holds the weeks of
\* exactly 10 calendar years, between 500 and 540 of them.
C8_FullGroupsSpanTenYears ==
    \A k \in 1..(Len(yearGroups) - 1) :
        /\ Len(yearGroups[k]) >= 500
        /\ Len(yearGroups[k]) <= 540

(***************************************************************************)
(* Properties of the key correction and of createFilesRecord.              *)
(***************************************************************************)
\* the week-start index the settings of the model stand for
ExpectedStartDayIndex(setting) ==
    CASE setting = "sunday" -> 0
      [] setting = "Monday" -> 1
      [] setting = "wednesday" -> 3
      [] OTHER -> Undefined

\* the first date strictly after date whose weekday is day
FirstLaterDateOn(date, day) ==
    CHOOSE x \in (date + 1)..(date + 7) :
        /\ getDay(x) = day
        /\ \A y \in (date + 1)..(date + 7) : getDay(y) = day => x <= y

\* the date a key should embed after correction for the week-start setting
ExpectedCorrectedDate(date, setting) ==
    LET day == ExpectedStartDayIndex(setting)
    IN  IF day = Undefined \/ getDay(date) = day THEN date
        ELSE FirstLaterDateOn(date, day)

\* the date embedded at characters 5..14 of a key
EmbeddedDate(key) == createLocalDateYYYYMMDD(slice(key, 5, 15)).date

ParseableFiles ==
    {i \in 1..Len(files) : MomentParse(files[i].basename).valid}

\* the key file i should be recorded under
ExpectedKey(i) ==
    LET date == MomentParse(files[i].basename).date
        corrected == ExpectedCorrectedDate(date, weekStartDay)
    IN  IF corrected = date THEN MomentFormatKey(date, timezoneOffset)
        ELSE dateToWeeklyNoteRecordKeyFormat(corrected, timezoneOffset)

\* C10: createFilesRecord corrects the key of each parseable file once,
\* records the file under its corrected key, skips the other files, and
\* keeps the file processed last when two keys collide.
C10_FilesRecord ==
    pcRecord = "done" =>
        /\ correctionCalls = Cardinality(ParseableFiles)
        /\ DOMAIN record = {ExpectedKey(i) : i \in ParseableFiles}
        /\ \A k \in DOMAIN record :
              /\ \E i \in ParseableFiles :
                    /\ ExpectedKey(i) = k
                    /\ record[k] = files[i]
                    /\ \A j \in ParseableFiles : ExpectedKey(j) = k => j <= i
              /\ \E i \in 1..Len(files) : record[k] = files[i]
        /\ Cardinality(DOMAIN record) <= Cardinality(ParseableFiles)

C10_Witness ==
    /\ pcRecord = "done"
    /\ Len(files) = 3
    /\ ParseableFiles = {1, 3}
    /\ files[1].basename # files[3].basename
    /\ weekStartDay = "Monday"
    /\ Cardinality(DOMAIN record) = 1
    /\ \A k \in DOMAIN record : record[k] = files[3] /\ k # dateKey

(***************************************************************************)
(* Properties of the date/key codec.                                       *)
(***************************************************************************)
TwoDigits(n) == <<DigitChars[(n \div 10) + 1], DigitChars[(n % 10) + 1]>>

FourDigits(n) == TwoDigits(n \div 100) \o TwoDigits(n % 100)

\* C11: the key of a date is "week-", the local date as YYYY-MM-DD with
\* zero padding, "T00:00:00" and the offset; for an offset of m minutes the
\* sign is "-" exactly when m > 0, the hours are floor(|m| / 60) and the
\* minutes |m| mod 60, each padded to two digits.
C11_KeyFormat ==
    pcCodec = "key" =>
        LET c == CivilFromDays(codecDate)
            m == timezoneOffset
            a == IF m < 0 THEN -m ELSE m
        IN  codecKey =
                <<"w", "e", "e", "k", "-">> \o FourDigits(c.year) \o <<"-">>
                    \o TwoDigits(c.month) \o <<"-">> \o TwoDigits(c.day)
                    \o <<"T", "0", "0", ":", "0", "0", ":", "0", "0">>
                    \o <<IF m > 0 THEN "-" ELSE "+">>
                    \o TwoDigits(a \div 60) \o <<":">> \o TwoDigits(a % 60)

\* C12: the date read back from characters 5..15 of the key of a date d
\* has the year, month and day of d, under every host offset; and the
\* YYYY-MM-DD string of the date parsed from a date string s is s.
C12_RoundTrips ==
    /\ pcCodec = "key" =>
          /\ ~codecParsed.threw
          /\ CivilFromDays(codecParsed.date) = CivilFromDays(codecDate)
    /\ pcCodec = "string" =>
          /\ ~codecParsed.threw
          /\ codecFormatted = codecString

(***************************************************************************)
(* Properties of the week classifier.                                      *)
(***************************************************************************)
\* the classification of the week that begins at weekStart, for a current
\* date that is the instant today
Classification(weekStart, today) ==
    IF Midnight(weekStart) <= today /\ today < Midnight(weekStart + 7)
    THEN "present"
    ELSE IF Midnight(weekStart) < today THEN "past" ELSE "future"

\* a call of setWeekStatus with a valid Date
ClassifiesWeek == SetWeekStatus /\ IsValidDateObject(statusWeekStartDate')

\* C13: setWeekStatus returns 'present' exactly when the week that begins
\* at weekStart contains today, otherwise 'past' exactly when weekStart is
\* before today, otherwise 'future'.
C13_WeekStatus ==
    [][ClassifiesWeek =>
          /\ ~weekStatus'.threw
          /\ weekStatus'.status = Classification(statusWeekStartDate'.n, now)]_vars

\* C14: between two calls of updateToday the real clock advancing changes
\* the classification of no week: the 'present' test and the 'past' test
\* both read the cached TODAY.
C14_CachedToday ==
    [][ClockAdvances =>
          \A validatedWeekStartsOn \in StatusWeekStarts :
              \A w \in StatusWeeks(validatedWeekStartsOn) :
                  setWeekStatus(DateOf(w), validatedWeekStartsOn)'
                      = setWeekStatus(DateOf(w), validatedWeekStartsOn)]_vars

(***************************************************************************)
(* Properties of the week-start normaliser.                                *)
(***************************************************************************)
\* String.prototype.toLowerCase() of a text of ASCII letters
RECURSIVE LowerCased(_)
LowerCased(text) ==
    IF text = << >> THEN << >>
    ELSE (IF \E k \in 1..26 : UpperCaseLetters[k] = Head(text)
          THEN <<LowerCaseLetters[CHOOSE k \in 1..26 :
                                      UpperCaseLetters[k] = Head(text)]>>
          ELSE <<Head(text)>>) \o LowerCased(Tail(text))

\* the text is one of the seven English day names, in some letter case
IsDayName(text) == \E i \in 1..7 : LowerCased(text) = DayNames[i]

IsDayIndex(index) ==
    index.type = "number" /\ index.ok /\ ~index.half /\ index.n \in 0..6

\* C15: for a day name d in any letter case the name of the index of d is d
\* lower-cased; for an index i of 0..6 the index of the name of i is i; and
\* undefined goes to undefined in both directions.
C15_NormaliserRoundTrip ==
    /\ (pcNormaliser = "string" /\ IsDayName(normaliserArgument.text)) =>
          normaliserName = StringOf(LowerCased(normaliserArgument.text))
    /\ (pcNormaliser = "string" /\ normaliserArgument = UndefinedValue) =>
          normaliserName = UndefinedValue
    /\ (pcNormaliser = "index" /\ IsDayIndex(normaliserArgument)) =>
          normaliserIndex = normaliserArgument.n
    /\ (pcNormaliser = "index" /\ normaliserArgument = UndefinedValue) =>
          normaliserIndex = Undefined

InLifespanRange(number) ==
    /\ number.type = "number" /\ number.ok
    /\ number.n >= 1
    /\ (number.n < 200 \/ (number.n = 200 /\ ~number.half))

\* C17: for a numeric lifespan the validatedLifespan that is returned is a
\* whole number of 1..200: a lifespan inside the range is returned
\* unchanged, one outside it is replaced by 76.
C17_ValidatedLifespan ==
    (pcGenerator = "returned" /\ ~calendarResult.threw) =>
        LET validatedLifespan == calendarResult.data.validatedLifespan
        IN  /\ ~validatedLifespan.half
            /\ validatedLifespan.n \in 1..200
            /\ InLifespanRange(arguments.lifespan) =>
                   validatedLifespan = arguments.lifespan
            /\ ~InLifespanRange(arguments.lifespan) =>
                   validatedLifespan = NumberOf(76)

\* C18: with the inputs of the settings generateCalendarData never throws:
\* a Date whose time is invalid is replaced by 2000-01-01, a lifespan that
\* is out of range or no number by 76, and a CalendarData with weeks is
\* returned.
C18_SettingsNeverThrow ==
    pcGenerator = "returned" =>
        /\ ~calendarResult.threw
        /\ ~arguments.birthDate.ok =>
               calendarResult.data.validatedBirthDate = DaysFromCivil(2000, 1, 1)
        /\ ~InLifespanRange(arguments.lifespan) =>
               calendarResult.data.validatedLifespan = NumberOf(76)
        /\ calendarResult.data.hasWeeks
        /\ Len(calendarResult.data.weeks) > 0

\* the text is empty or holds nothing but spaces
IsBlank(text) == \A i \in 1..Len(text) : text[i] = " "

\* C19: generateCalendarData throws, and returns nothing, when birthDate is
\* no Date, when lifespan is no number or NaN, and when componentName is
\* empty, blank or no string; setWeekStatus throws when weekStartDate is
\* null or a Date whose time is invalid.
C19_MisuseThrows ==
    /\ (/\ pcGenerator = "returned"
        /\ \/ arguments.birthDate.type # "Date"
           \/ arguments.lifespan.type # "number"
           \/ arguments.lifespan = NaN
           \/ arguments.componentName.type # "string"
           \/ IsBlank(arguments.componentName.text)) =>
          /\ calendarResult.threw
          /\ calendarResult.data = NoCalendarData
    /\ (weekStatus # NoStatus /\ statusWeekStartDate \in {Null, InvalidDate}) =>
          /\ weekStatus.threw
          /\ weekStatus.status = "none"

C19_Witness ==
    /\ pcGenerator = "returned"
    /\ arguments.birthDate.type = "Date"
    /\ arguments.lifespan = NumberOf(1)
    /\ arguments.componentName = StringOf(<<" ", " ", " ">>)
    /\ calendarResult.threw
    /\ statusWeekStartDate = InvalidDate
    /\ weekStatus.threw

\* C20: deathDate is the validated birth date advanced by validatedLifespan
\* calendar years: its year is the birth year plus the lifespan, its month
\* and day are those of the birth date, but 29 February becomes 28 February
\* when the year it lands in is no leap year.
C20_DeathDate ==
    pc # "start" =>
        LET b == CivilFromDays(data.validatedBirthDate)
            d == CivilFromDays(data.deathDate)
        IN  /\ d.year = b.year + data.validatedLifespan
            /\ d.month = b.month
            /\ d.day = IF b.month = 2 /\ b.day = 29 /\ ~IsLeapYear(d.year)
                        THEN 28 ELSE b.day

C20_Witness ==
    /\ pc = "generated"
    /\ data.validatedBirthDate = DaysFromCivil(2004, 2, 29)
    /\ data.validatedLifespan = 3
    /\ data.deathDate = DaysFromCivil(2007, 2, 28)

(***************************************************************************)
(* Failures of the week enumeration.                                       *)
(***************************************************************************)
\* the enumeration the next iteration of createYearGroups asks for
NextGroupEnumeration ==
    eachWeekOfInterval(currentStartDate,
                       GroupEndDate(currentStartDate, data.validatedLifespan,
                                    Len(yearGroups)),
                       data.validatedWeekStartsOn, intervalPolicy)

\* eachWeekOfInterval throws in the iteration createYearGroups is about to run
GroupEnumerationFails ==
    /\ pc = "loop"
    /\ currentStartDate < endDate
    /\ NextGroupEnumeration.threw

\* eachWeekOfInterval threw in the generateCalendarData that returned cd
CalendarEnumerationFailed(cd) ==
    eachWeekOfInterval(cd.birthWeek, cd.deathWeek, cd.validatedWeekStartsOn,
                       intervalPolicy).threw

\* C21: a failure of the week enumeration is not propagated: the
\* generateCalendarData it happens in returns weeks = [] and hasWeeks =
\* false, the createYearGroups it happens in returns an empty list of
\* groups; in every returned CalendarData hasWeeks is true exactly when
\* weeks is not empty.
C21_EnumerationFailure ==
    [][/\ pc' # "start" => (data'.hasWeeks <=> data'.weeks # << >>)
       /\ (pc = "start" /\ pc' = "generated" /\ CalendarEnumerationFailed(data'))
              => (data'.weeks = << >> /\ ~data'.hasWeeks)
       /\ GroupEnumerationFails => (pc' = "done" /\ yearGroups' = << >>)]_vars

(***************************************************************************)
(* Properties of the lifespan validator.                                   *)
(***************************************************************************)
\* the text of a whole number, in the digits 0..9
TextOfDigits(text) == text # << >> /\ IsDigits(text)

\* the number a numeric text denotes is an integer n with
\* minLifespan <= n <= maxLifespan; a text denotes the number of its numeric
\* literal (spaces around it dropped), read exactly
DenotesIntegerWithin(value, minLifespan, maxLifespan) ==
    LET text == trim(value)
        unsigned == IF text # << >> /\ Head(text) \in {"+", "-"}
                    THEN Tail(text) ELSE text
        negative == text # << >> /\ Head(text) = "-"
        decimal == DecimalDigits(unsigned)
        n == ValueOfDigits(decimal.whole, 10)
    IN  IF RadixOfPrefix(text) # 0
        THEN LET number == NonDecimalValue(SubSeq(text, 3, Len(text)),
                                           RadixOfPrefix(text))
             IN  /\ ~number.isNaN
                 /\ minLifespan <= number.floor
                 /\ number.floor <= maxLifespan
        ELSE /\ decimal.ok
             /\ decimal.fraction = << >>
             /\ minLifespan <= (IF negative THEN -n ELSE n)
             /\ (IF negative THEN -n ELSE n) <= maxLifespan

\* C22: isValidLifespan(value, min, max) is true exactly when value denotes
\* an integer n with min <= n <= max.
C22_ValidLifespan ==
    pcValidator = "returned" =>
        (validatorResult <=>
            DenotesIntegerWithin(validatorValue, validatorBounds.minLifespan,
                                 validatorBounds.maxLifespan))

(***************************************************************************)
(* C23: the moment format of a file name pattern.                          *)
(***************************************************************************)
\* the ways to read pattern as before {{date:FORMAT}} after with a format of
\* one or more characters other than }: the positions of {{ and of }}
SegmentReadings(pattern) ==
    {r \in (1..Len(pattern)) \X (1..Len(pattern)) :
        /\ StartsWithAt(pattern, r[1], DateSegmentOpening)
        /\ r[2] > r[1] + 7
        /\ StartsWithAt(pattern, r[2], SegmentClosing)
        /\ \A k \in (r[1] + 7)..(r[2] - 1) : pattern[k] # "}"}

LiteralInBrackets(text) ==
    IF text = << >> THEN << >> ELSE <<"[">> \o text \o <<"]">>

FormatOfReading(pattern, r) ==
    LiteralInBrackets(SubSeq(pattern, 1, r[1] - 1))
        \o SubSeq(pattern, r[1] + 7, r[2] - 1)
        \o LiteralInBrackets(SubSeq(pattern, r[2] + 2, Len(pattern)))

\* C23: of a pattern with exactly one {{date:FORMAT}} segment the function
\* returns FORMAT with the non-empty text before it and the non-empty text
\* after it in square brackets each; of a pattern without such a segment it
\* returns the whole pattern in one pair of square brackets.
C23_MomentFormatOfPattern ==
    pcTemplate = "extracted" =>
        /\ Cardinality(SegmentReadings(templateText)) = 1 =>
               \A r \in SegmentReadings(templateText) :
                   templateResult = FormatOfReading(templateText, r)
        /\ SegmentReadings(templateText) = {} =>
               templateResult = <<"[">> \o templateText \o <<"]">>

\* the pattern prefix-{{date:YYYY}}-suffix gave [prefix-]YYYY[-suffix]
C23_Witness ==
    /\ pcTemplate = "extracted"
    /\ templateText = <<"p", "r", "e", "f", "i", "x", "-", "{", "{", "d", "a", "t", "e", ":", "Y", "Y", "Y", "Y", "}", "}", "-", "s", "u", "f", "f", "i", "x">>
    /\ templateResult = <<"[", "p", "r", "e", "f", "i", "x", "-", "]", "Y", "Y", "Y", "Y", "[", "-", "s", "u", "f", "f", "i", "x", "]">>

(***************************************************************************)
(* C24: the variables of the Journals plugin.                              *)
(***************************************************************************)
JournalsVariables ==
    {VariableStartDate, VariableEndDate, VariableCurrentDate, VariableIndex}

\* the day of the year that the first week of moment's locale must hold:
\* en, en-gb, ar
MomentFirstWeekDay(dow) == IF dow = 0 THEN 6 ELSE IF dow = 1 THEN 4 ELSE 12

\* the days between 1 January of the year and the first day of its week 1
FirstWeekOffset(year, dow) ==
    LET fwd == 7 + dow - MomentFirstWeekDay(dow)
    IN  fwd - 1 - ((7 + getDay(DaysFromCivil(year, 1, 1) + fwd - 1) - dow) % 7)

DaysInYear(year) == DaysFromCivil(year + 1, 1, 1) - DaysFromCivil(year, 1, 1)

WeeksInYear(year, dow) ==
    (DaysInYear(year) - FirstWeekOffset(year, dow)
        + FirstWeekOffset(year + 1, dow)) \div 7

\* the number of the week of the locale that holds the date
WeekNumberIn(date, year, dow) ==
    LET week == (date - DaysFromCivil(year, 1, 1)
                     - FirstWeekOffset(year, dow)) \div 7 + 1
    IN  IF week < 1 THEN week + WeeksInYear(year - 1, dow)
        ELSE IF week > WeeksInYear(year, dow)
        THEN week - WeeksInYear(year, dow)
        ELSE week

WeekNumber(date, dow) == WeekNumberIn(date, CivilFromDays(date).year, dow)

\* the text with each of the four variables replaced by its value
JournalsVariablesReplaced(text, date, format, dow) ==
    replaceVariable(
        replaceVariable(
            replaceVariable(
                replaceVariable(text, VariableIndex,
                                NumberToString(WeekNumber(date, dow))),
                VariableCurrentDate, MomentFormat(date, format)),
            VariableEndDate,
            MomentFormat(momentStartOfWeek(date, dow) + 6, format)),
        VariableStartDate, MomentFormat(momentStartOfWeek(date, dow), format))

\* C24: parseJournalsVariables replaces every {{start_date}}, {{end_date}},
\* {{current_date}} and {{index}} of the text, with or without spaces inside
\* the braces, by the first day and the last day of the week that holds the
\* date, by the date and by the number of that week; the other text stays,
\* and none of the four variables is left in what it returns.
C24_JournalsVariables ==
    pcTemplate = "parsed" =>
        /\ templateResult = JournalsVariablesReplaced(templateText,
               templateDate, templateFormat, templateWeekStart)
        /\ \A name \in JournalsVariables :
               VariableStarts(templateResult, name) = {}

(***************************************************************************)
(* C25: the weeks of a lifespan of one year.                               *)
(***************************************************************************)
\* C25: for every valid birth date and week-start day, the CalendarData of
\* a lifespan of 1 year holds between 52 and 54 weeks.
C25_OneYearWeeks ==
    (pc # "start" /\ lifespan = 1) =>
        /\ data.validatedLifespan = 1
        /\ Len(data.weeks) >= 52
        /\ Len(data.weeks) <= 54

\* a year from 29 February 2004, a Sunday, to Monday 28 February 2005 with
\* weeks that begin on Monday: 54 weeks
C25_Witness ==
    /\ pc # "start"
    /\ lifespan = 1
    /\ birthDate = DaysFromCivil(2004, 2, 29)
    /\ data.validatedWeekStartsOn = 1
    /\ Len(data.weeks) = 54

(***************************************************************************)
(* C26: createYearGroups with a missing birth date or no lifespan.         *)
(***************************************************************************)
\* C26: when validatedBirthDate is null or validatedLifespan is zero or
\* negative, createYearGroups never comes to its loop and returns the empty
\* list.
C26_InvalidGroupParameters ==
    (/\ pc # "start"
     /\ \/ data.validatedBirthDate = NullDate
        \/ data.validatedLifespan <= 0)
        => (pc \in {"generated", "done"} /\ yearGroups = << >>)

\* createYearGroups(null, 80, 1 January 1990, 1) has returned
C26_Witness ==
    /\ pc = "done"
    /\ data.validatedBirthDate = NullDate
    /\ data.validatedLifespan = 80
    /\ data.birthWeek = DaysFromCivil(1990, 1, 1)
    /\ data.validatedWeekStartsOn = 1
    /\ yearGroups = << >>

(***************************************************************************)
(* C27: the groups of createYearGroups as one run of weeks.                *)
(***************************************************************************)
StartDatesOf(group) == {group[i].startDate : i \in 1..Len(group)}

\* C27: the groups of createYearGroups cut one run of consecutive weeks
\* that begins at birthWeek: the first week of a group starts 7 days after
\* the last week of the group before it, and no week start date is in two
\* groups.
C27_GroupsPartitionWeeks ==
    /\ \A k \in 1..Len(yearGroups) : yearGroups[k] # << >>
    /\ yearGroups # << >> => yearGroups[1][1].startDate = data.birthWeek
    /\ \A k \in 1..(Len(yearGroups) - 1) :
          yearGroups[k + 1][1].startDate
              = yearGroups[k][Len(yearGroups[k])].startDate + 7
    /\ \A k \in 1..Len(yearGroups) : \A l \in (k + 1)..Len(yearGroups) :
          StartDatesOf(yearGroups[k]) \cap StartDatesOf(yearGroups[l]) = {}

(***************************************************************************)
(* C28: the classifications of the weeks in ascending order.               *)
(***************************************************************************)
\* what setWeekStatus returns for the week that begins on the day w
StatusOfWeek(w, validatedWeekStartsOn) ==
    setWeekStatus(DateOf(w), validatedWeekStartsOn).status

\* C28: whatever the clock and the cached TODAY are, the classifications of
\* the weeks in ascending order read past* present? future*: at most one
\* week is 'present', no 'future' week comes before a 'present' or a 'past'
\* week, and no 'past' week comes after a 'present' week.
C28_StatusesInOrder ==
    \A validatedWeekStartsOn \in StatusWeekStarts :
        \A earlier, later \in StatusWeeks(validatedWeekStartsOn) :
            earlier < later =>
                LET first == StatusOfWeek(earlier, validatedWeekStartsOn)
                    second == StatusOfWeek(later, validatedWeekStartsOn)
                IN  /\ ~(first = "present" /\ second = "present")
                    /\ ~(first = "future" /\ second \in {"present", "past"})
                    /\ ~(first = "present" /\ second = "past")

(***************************************************************************)
(* C29: corrected keys fall on the week-start day.                         *)
(***************************************************************************)
\* C29: when the week-start day is specified, the key createFilesRecord
\* records a note under embeds a date on that weekday, and correcting a
\* corrected key changes nothing:
\* weeklyNoteKeyCorrection(weeklyNoteKeyCorrection(k, w), w)
\*     = weeklyNoteKeyCorrection(k, w).
C29_CorrectionIdempotent ==
    /\ pcCorrection # "start" =>
          /\ ~correctedOnce.threw
          /\ ExpectedStartDayIndex(correctionWeekStart) # Undefined =>
                /\ ~createLocalDateYYYYMMDD(slice(correctedOnce.key, 5, 15)).threw
                /\ getDay(EmbeddedDate(correctedOnce.key))
                       = ExpectedStartDayIndex(correctionWeekStart)
    /\ pcCorrection = "twice" =>
          /\ ~correctedTwice.threw
          /\ correctedTwice.key = correctedOnce.key

(***************************************************************************)
(* C30: the components of a LifeCalendarView.                              *)
(***************************************************************************)
\* a step that calls refreshView() of the view
RefreshesView == pcView = "open" /\ (SettingsChange \/ VaultFileChange)

\* C30: after any sequence of onOpen, refreshes and onClose at most one
\* calendar component is mounted; a refresh destroys the component that
\* was mounted and mounts a new one with the settings and the weekly notes
\* of that moment; after onClose no component is mounted.
C30_OneComponentMounted ==
    [][/\ Cardinality(mountedComponents') <= 1
       /\ Cardinality(contentEl') <= 1
       /\ pcView' = "closed" => (mountedComponents' = {} /\ contentEl' = {})
       /\ RefreshesView =>
              /\ lifeCalendar \notin mountedComponents'
              /\ lifeCalendar' # lifeCalendar
              /\ mountedComponents' = {lifeCalendar'}
              /\ componentProps'[lifeCalendar']
                     = buildComponentProps(settings', weeklyNotes')]_vars

====
